---- MODULE Spec2Model ----
(***************************************************************************)
(* Model of the authentication and JSON-RPC dispatch core of guh:          *)
(*   UserManager  (libguh-core/usermanager.cpp)                            *)
(*   JsonRPCServer (jsonrpcserver.cpp, held in pushbuttondbusservice.h)    *)
(*   PushButtonDBusService (libguh-core/pushbuttondbusservice.cpp)         *)
(*                                                                         *)
(* The core is single threaded: every slot runs to completion, and a       *)
(* signal emitted inside a slot runs its connected slots before the emit   *)
(* returns.  One action of the model is therefore one slot or one public   *)
(* call together with all the slots it triggers.                           *)
(*                                                                         *)
(* A database statement whose outcome the code inspects through            *)
(* lastError() may fail; the outcome is an input of the action (execOk,    *)
(* queryOk).  Statements the code does not inspect are taken to succeed.   *)
(***************************************************************************)
EXTENDS Integers, Sequences, FiniteSets, TLC

\* ------------------------------------------------------------------ bounds
MaxTokens == 2      \* tokens generated (QUuid::createUuid) in one run
MaxTx     == 2      \* push-button transactions requested in one run
MaxNotif  == 2      \* broadcast notifications emitted in one run
LastMoment == 2   \* the clock of the rule engine runs over 0 .. LastMoment
MaxAsync == 3     \* async replies the server creates in a run
MaxParams == 2    \* param descriptors of an EventDescriptor that is compared

\* --------------------------------------------------------------- constants
NoTransaction == -1 \* m_pushButtonTransaction.first when nothing is pending

EmptyToken == 0     \* QByteArray(): no "token" key in the message
BadToken   == -1    \* a token with a character outside validateToken's class
NoClient   == "none"
NoTime     == -1    \* an invalid QDateTime

Clients    == {"c1", "c2"}
Interfaces == {"open", "secure"}

\* interface->configuration().authenticationEnabled, which is also the flag
\* the interface is registered with (m_interfaces)
authenticationEnabled(interface) == interface = "secure"

Usernames     == {"alice@guh.io", "Alice@guh.io", "bob@guh.io", "nobody"}
GoodPassword  == "Passw0rd!"
OtherPassword == "Wrong#Pw1"
WeakPassword  == "weak"
DeviceNames   == {"phoneA", "phoneB"}

\* QString::toLower / SQL lower()
toLower(s) == IF s = "Alice@guh.io" THEN "alice@guh.io" ELSE s

VARIABLES
    usersTable,        \* rows of table users: [username, password]
    tokensTable,       \* rows of table tokens: [id, username, token, devicename]
    uuidCounter,       \* number of uuids drawn for tokens so far
    m_pushButtonTransaction,          \* [first: transaction id, second: device name]
    m_pushButtonTransactionIdCounter,
    m_clientTransports,               \* clientId -> interface
    m_clientNotifications,            \* clientId -> notifications enabled
    m_pushButtonTransactions,         \* transaction id -> clientId
    m_notificationId,
    call,              \* the operation that ran last, its input and its reply
    signals,           \* pushButtonAuthFinished signals emitted by it, in order
    notes,             \* notifications it sent, in order
    issuedTo,          \* history: token -> username authenticate issued it to
    revoked,           \* history: tokens removed by removeToken or removeUser
    finishedTx,        \* history: transactions a pushButtonAuthFinished was emitted for
    m_rules,           \* RuleEngine: rule id -> Rule
    m_ruleIds,         \* RuleEngine: rule ids in insertion order
    m_activeRules,     \* RuleEngine: ids of the rules tracked as active
    m_lastEvaluationTime,
    settings,          \* GuhSettings(SettingsRoleRules): rule id -> saved group
    deviceState,       \* value of state S1 of the configured device d1
    clock,             \* the moment the time manager ticked last
    ruleCall,          \* the rule engine operation that ran last and its outcome
    replies,           \* JsonReply objects created by createAsyncReply, by number
    m_asyncReplies,    \* JsonRPCServer: waiting reply -> interface
    m_pairingRequests, \* JsonRPCServer: userId -> reply
    aws_pairingRequests, \* AWSConnector::m_pairingRequests: transaction id -> userId
    sent,              \* history: reply -> the responses sent for it, in order
    asyncCall,         \* the step of an async reply that ran last
    thisDescriptor,    \* EventDescriptor: the left operand of operator==
    otherDescriptor,   \* EventDescriptor: the right operand of operator==
    equality           \* the comparison that ran last and what it returned

vars == <<usersTable, tokensTable, uuidCounter, m_pushButtonTransaction,
          m_pushButtonTransactionIdCounter, m_clientTransports,
          m_clientNotifications, m_pushButtonTransactions, m_notificationId,
          call, signals, notes, issuedTo, revoked, finishedTx,
          m_rules, m_ruleIds, m_activeRules, m_lastEvaluationTime, settings,
          deviceState, clock, ruleCall,
          replies, m_asyncReplies, m_pairingRequests, aws_pairingRequests, sent, asyncCall,
          thisDescriptor, otherDescriptor, equality>>

descriptorVars == <<thisDescriptor, otherDescriptor, equality>>

asyncVars == <<replies, m_asyncReplies, m_pairingRequests, aws_pairingRequests, sent,
               asyncCall>>

ruleVars == <<m_rules, m_ruleIds, m_activeRules, m_lastEvaluationTime, settings,
              deviceState, clock, ruleCall>>

coreVars == <<usersTable, tokensTable, uuidCounter, m_pushButtonTransaction,
              m_pushButtonTransactionIdCounter, m_clientTransports,
              m_clientNotifications, m_pushButtonTransactions, m_notificationId,
              call, signals, notes, issuedTo, revoked, finishedTx>>

\* ---------------------------------------------------------------- helpers
Range(f) == {f[x] : x \in DOMAIN f}

Without(f, k) == [x \in DOMAIN f \ {k} |-> f[x]]

With(f, k, v) == [x \in DOMAIN f \cup {k} |-> IF x = k THEN v ELSE f[x]]

EmptyMap == [x \in {} |-> x]

\* ============================================================ UserManager

\* UserManager::users
users == {r.username : r \in usersTable}

validateUsername(username) == username \in Usernames \ {"nobody"}

\* the password regular expression of createUser
passwordValidator(password) == password \in {GoodPassword, OtherPassword}

validateToken(token) == token # EmptyToken /\ token # BadToken

\* UserManager::createUser: the new users table and the returned UserError
createUser(username, password, execOk) ==
    IF ~validateUsername(username)
    THEN [users |-> usersTable, error |-> "UserErrorInvalidUserId"]
    ELSE IF ~passwordValidator(password)
    THEN [users |-> usersTable, error |-> "UserErrorBadPassword"]
    ELSE IF \E r \in usersTable : toLower(r.username) = toLower(username)
    THEN [users |-> usersTable, error |-> "UserErrorDuplicateUserId"]
    ELSE IF ~execOk
    THEN [users |-> usersTable, error |-> "UserErrorBackendError"]
    ELSE [users |-> usersTable \cup {[username |-> username, password |-> password]},
          error |-> "UserErrorNoError"]

\* variant of removeUser that matches the tokens' username case-sensitively
removeUser_caseSensitiveTokens(username) ==
    IF ~\E r \in usersTable : toLower(r.username) = toLower(username)
    THEN [users |-> usersTable, tokens |-> tokensTable, error |-> "UserErrorInvalidUserId"]
    ELSE [users |-> {r \in usersTable : toLower(r.username) # toLower(username)},
          tokens |-> {t \in tokensTable : t.username # username},
          error |-> "UserErrorNoError"]

\* UserManager::removeUser
removeUser(username) ==
    IF ~\E r \in usersTable : toLower(r.username) = toLower(username)
    THEN [users |-> usersTable, tokens |-> tokensTable, error |-> "UserErrorInvalidUserId"]
    ELSE [users |-> {r \in usersTable : toLower(r.username) # toLower(username)},
          tokens |-> {t \in tokensTable : toLower(t.username) # toLower(username)},
          error |-> "UserErrorNoError"]

\* UserManager::authenticate: the new tokens table and the returned token
authenticate_caseSensitive(username, password, deviceName, execOk) ==
    IF ~validateUsername(username)
    THEN [tokens |-> tokensTable, token |-> EmptyToken, drawn |-> FALSE]
    ELSE IF ~\E r \in usersTable : r.username = username /\ r.password = password
    THEN [tokens |-> tokensTable, token |-> EmptyToken, drawn |-> FALSE]
    ELSE IF ~execOk
    THEN [tokens |-> tokensTable, token |-> EmptyToken, drawn |-> TRUE]
    ELSE [tokens |-> tokensTable \cup {[id |-> uuidCounter + 1, username |-> username,
                                       token |-> uuidCounter + 1, devicename |-> deviceName]},
          token |-> uuidCounter + 1, drawn |-> TRUE]

authenticate(username, password, deviceName, execOk) ==
    IF ~validateUsername(username)
    THEN [tokens |-> tokensTable, token |-> EmptyToken, drawn |-> FALSE]
    ELSE IF ~\E r \in usersTable : toLower(r.username) = toLower(username)
    THEN [tokens |-> tokensTable, token |-> EmptyToken, drawn |-> FALSE]
    ELSE IF ~\E r \in usersTable : /\ toLower(r.username) = toLower(username)
                                   /\ r.password = password
    THEN [tokens |-> tokensTable, token |-> EmptyToken, drawn |-> FALSE]
    ELSE IF ~execOk
    THEN [tokens |-> tokensTable, token |-> EmptyToken, drawn |-> TRUE]
    ELSE [tokens |-> tokensTable \cup {[id |-> uuidCounter + 1, username |-> username,
                                       token |-> uuidCounter + 1, devicename |-> deviceName]},
          token |-> uuidCounter + 1, drawn |-> TRUE]

\* variant of cancelPushButtonAuth that forgets the transaction without emitting
\* pushButtonAuthFinished
cancelPushButtonAuth_silent(tr, transactionId) ==
    IF tr.first = NoTransaction
    THEN [tr |-> tr, signals |-> <<>>]
    ELSE IF tr.first # transactionId
    THEN [tr |-> tr, signals |-> <<>>]
    ELSE [tr |-> [tr EXCEPT !.first = NoTransaction], signals |-> <<>>]

\* variant of cancelPushButtonAuth that does not compare the transaction id
cancelPushButtonAuth_anyId(tr, transactionId) ==
    IF tr.first = NoTransaction
    THEN [tr |-> tr, signals |-> <<>>]
    ELSE [tr |-> [tr EXCEPT !.first = NoTransaction],
          signals |-> <<[transactionId |-> tr.first, success |-> FALSE, token |-> EmptyToken]>>]

\* UserManager::cancelPushButtonAuth on the transaction pair tr
cancelPushButtonAuth(tr, transactionId) ==
    IF tr.first = NoTransaction
    THEN [tr |-> tr, signals |-> <<>>]
    ELSE IF tr.first # transactionId
    THEN [tr |-> tr, signals |-> <<>>]
    ELSE [tr |-> [tr EXCEPT !.first = NoTransaction],
          signals |-> <<[transactionId |-> tr.first, success |-> FALSE, token |-> EmptyToken]>>]

\* variant of requestPushButtonAuth that overwrites the pending transaction
\* without cancelling it
requestPushButtonAuth_noCancel(deviceName) ==
    LET transactionId == m_pushButtonTransactionIdCounter + 1
    IN  [tr |-> [first |-> transactionId, second |-> deviceName],
         counter |-> transactionId,
         transactionId |-> transactionId,
         signals |-> <<>>]

\* UserManager::requestPushButtonAuth
requestPushButtonAuth(deviceName) ==
    LET c == IF m_pushButtonTransaction.first # NoTransaction
             THEN cancelPushButtonAuth(m_pushButtonTransaction, m_pushButtonTransaction.first)
             ELSE [tr |-> m_pushButtonTransaction, signals |-> <<>>]
        transactionId == m_pushButtonTransactionIdCounter + 1
    IN  [tr |-> [first |-> transactionId, second |-> deviceName],
         counter |-> transactionId,
         transactionId |-> transactionId,
         signals |-> c.signals]

\* UserManager::userForToken ("" when there is none)
userForToken(token, queryOk) ==
    IF ~validateToken(token) THEN ""
    ELSE IF ~queryOk THEN ""
    ELSE IF ~\E t \in tokensTable : t.token = token THEN ""
    ELSE (CHOOSE t \in tokensTable : t.token = token).username

\* UserManager::removeToken
removeToken(tokenId, execOk) ==
    IF ~execOk
    THEN [tokens |-> tokensTable, error |-> "UserErrorBackendError"]
    ELSE IF ~\E t \in tokensTable : t.id = tokenId
    THEN [tokens |-> tokensTable, error |-> "UserErrorTokenNotFound"]
    ELSE [tokens |-> {t \in tokensTable : t.id # tokenId}, error |-> "UserErrorNoError"]

\* UserManager::verifyToken
verifyToken(token, queryOk) ==
    IF ~validateToken(token) THEN FALSE
    ELSE IF ~queryOk THEN FALSE
    ELSE \E t \in tokensTable : t.token = token

\* variant of pushButtonPressed that leaves the transaction pending
pushButtonPressed_keepsTransaction(tr, tokens, execOk) ==
    IF tr.first = NoTransaction
    THEN [tr |-> tr, tokens |-> tokens, signals |-> <<>>, drawn |-> FALSE]
    ELSE LET token == uuidCounter + 1
             failure == [transactionId |-> tr.first, success |-> FALSE, token |-> EmptyToken]
             succeeded == [transactionId |-> tr.first, success |-> TRUE, token |-> token]
         IN  [tr |-> tr,
              tokens |-> IF execOk
                         THEN tokens \cup {[id |-> token, username |-> "", token |-> token,
                                            devicename |-> tr.second]}
                         ELSE tokens,
              signals |-> IF execOk THEN <<succeeded>> ELSE <<failure, succeeded>>,
              drawn |-> TRUE]

\* variant of pushButtonPressed that does not look whether a transaction is pending
pushButtonPressed_withoutPending(tr, tokens, execOk) ==
    LET token == uuidCounter + 1
        failure == [transactionId |-> tr.first, success |-> FALSE, token |-> EmptyToken]
        succeeded == [transactionId |-> tr.first, success |-> TRUE, token |-> token]
    IN  [tr |-> [tr EXCEPT !.first = NoTransaction],
         tokens |-> IF execOk
                    THEN tokens \cup {[id |-> token, username |-> "", token |-> token,
                                       devicename |-> tr.second]}
                    ELSE tokens,
         signals |-> IF execOk THEN <<succeeded>> ELSE <<failure, succeeded>>,
         drawn |-> TRUE]

\* UserManager::pushButtonPressed on the transaction pair tr and the tokens table
pushButtonPressed(tr, tokens, execOk) ==
    IF tr.first = NoTransaction
    THEN [tr |-> tr, tokens |-> tokens, signals |-> <<>>, drawn |-> FALSE]
    ELSE LET token == uuidCounter + 1
             failure == [transactionId |-> tr.first, success |-> FALSE, token |-> EmptyToken]
             succeeded == [transactionId |-> tr.first, success |-> TRUE, token |-> token]
         IN  [tr |-> [tr EXCEPT !.first = NoTransaction],
              tokens |-> IF execOk
                         THEN tokens \cup {[id |-> token, username |-> "", token |-> token,
                                            devicename |-> tr.second]}
                         ELSE tokens,
              signals |-> IF execOk THEN <<succeeded>> ELSE <<failure, succeeded>>,
              drawn |-> TRUE]

\* ========================================================== JsonRPCServer

\* the signals a slot emitted, as the set of transactions they finish
Finished(sigs) == {sigs[i].transactionId : i \in DOMAIN sigs}

\* clients whose notification flag is true: m_clientNotifications.keys(true)
keysTrue(flags) == {c \in DOMAIN flags : flags[c]}

\* variant of onPushButtonAuthFinished that looks the client up with value()
\* and takes the entry only once the client is known to be connected
onPushButtonAuthFinished_keepsEntry(sig, txs, transports, flags) ==
    IF sig.transactionId \notin DOMAIN txs
    THEN [txs |-> txs, notes |-> <<>>]
    ELSE LET clientId == txs[sig.transactionId]
             params == IF sig.success
                       THEN [transactionId |-> sig.transactionId, success |-> sig.success,
                             token |-> sig.token]
                       ELSE [transactionId |-> sig.transactionId, success |-> sig.success]
         IN  IF clientId \notin DOMAIN transports
             THEN [txs |-> txs, notes |-> <<>>]
             ELSE [txs |-> Without(txs, sig.transactionId),
                   notes |-> <<[notification |-> "JSONRPC.PushButtonAuthFinished",
                                id |-> sig.transactionId,
                                params |-> params,
                                recipients |-> {clientId},
                                enabledThen |-> keysTrue(flags),
                                connectedThen |-> DOMAIN transports]>>]

\* variant of onPushButtonAuthFinished that honours the client's notification flag
onPushButtonAuthFinished_flagged(sig, txs, transports, flags) ==
    IF sig.transactionId \notin DOMAIN txs
    THEN [txs |-> txs, notes |-> <<>>]
    ELSE LET clientId == txs[sig.transactionId]
             params == IF sig.success
                       THEN [transactionId |-> sig.transactionId, success |-> sig.success,
                             token |-> sig.token]
                       ELSE [transactionId |-> sig.transactionId, success |-> sig.success]
         IN  IF clientId \notin DOMAIN transports \/ ~flags[clientId]
             THEN [txs |-> Without(txs, sig.transactionId), notes |-> <<>>]
             ELSE [txs |-> Without(txs, sig.transactionId),
                   notes |-> <<[notification |-> "JSONRPC.PushButtonAuthFinished",
                                id |-> sig.transactionId,
                                params |-> params,
                                recipients |-> {clientId},
                                enabledThen |-> keysTrue(flags),
                                connectedThen |-> DOMAIN transports]>>]

\* JsonRPCServer::onPushButtonAuthFinished for one signal: the transaction map
\* left behind and the notification sent (none when the slot returns early)
onPushButtonAuthFinished(sig, txs, transports, flags) ==
    IF sig.transactionId \notin DOMAIN txs
    THEN [txs |-> txs, notes |-> <<>>]
    ELSE LET clientId == txs[sig.transactionId]
             params == IF sig.success
                       THEN [transactionId |-> sig.transactionId, success |-> sig.success,
                             token |-> sig.token]
                       ELSE [transactionId |-> sig.transactionId, success |-> sig.success]
         IN  IF clientId \notin DOMAIN transports
             THEN [txs |-> Without(txs, sig.transactionId), notes |-> <<>>]
             ELSE [txs |-> Without(txs, sig.transactionId),
                   notes |-> <<[notification |-> "JSONRPC.PushButtonAuthFinished",
                                id |-> sig.transactionId,
                                params |-> params,
                                recipients |-> {clientId},
                                enabledThen |-> keysTrue(flags),
                                connectedThen |-> DOMAIN transports]>>]

\* the slot run for every signal of sigs, in the order they were emitted
RECURSIVE deliver(_, _, _, _)
deliver(sigs, txs, transports, flags) ==
    IF sigs = <<>>
    THEN [txs |-> txs, notes |-> <<>>]
    ELSE LET one  == onPushButtonAuthFinished(Head(sigs), txs, transports, flags)
             rest == deliver(Tail(sigs), one.txs, transports, flags)
         IN  [txs |-> rest.txs, notes |-> one.notes \o rest.notes]

\* variant of sendNotification that sends to every connected client
sendNotification_toAll(name, params) ==
    [notification |-> name,
     id |-> m_notificationId,
     params |-> params,
     recipients |-> DOMAIN m_clientTransports,
     enabledThen |-> keysTrue(m_clientNotifications),
     connectedThen |-> DOMAIN m_clientTransports]

\* JsonRPCServer::sendNotification: the notification sent to every client whose
\* flag is true
sendNotification(name, params) ==
    [notification |-> name,
     id |-> m_notificationId,
     params |-> params,
     recipients |-> keysTrue(m_clientNotifications),
     enabledThen |-> keysTrue(m_clientNotifications),
     connectedThen |-> DOMAIN m_clientTransports]

\* JsonRPCServer::createWelcomeMessage (the fields that depend on the state)
createWelcomeMessage(interface) ==
    [initialSetupRequired |-> IF authenticationEnabled(interface) THEN users = {} ELSE FALSE,
     authenticationRequired |-> authenticationEnabled(interface)]

\* m_handlers and JsonHandler::hasMethod
Methods(namespace) ==
    IF namespace = "JSONRPC"
    THEN {"Introspect", "Hello", "Version", "SetNotificationStatus", "CreateUser",
          "Authenticate", "RequestPushButtonAuth", "Tokens", "RemoveToken"}
    ELSE IF namespace = "Rules" THEN {"GetRules"}
    ELSE {}

Namespaces == {"JSONRPC", "Rules"}

authExemptMethodsNoUser   == {"Introspect", "Hello", "CreateUser", "RequestPushButtonAuth"}
authExemptMethodsWithUser == {"Introspect", "Hello", "Authenticate", "RequestPushButtonAuth"}

\* variant of gate that uses the list of the no-user case in both cases
gate_noUserList(interface, namespace, method, token, queryOk) ==
    IF ~authenticationEnabled(interface) THEN ""
    ELSE IF users = {}
    THEN IF /\ ~(namespace = "JSONRPC" /\ method \in authExemptMethodsNoUser)
            /\ (token = EmptyToken \/ ~verifyToken(token, queryOk))
         THEN "Initial setup required. Call CreateUser first."
         ELSE ""
    ELSE IF /\ ~(namespace = "JSONRPC" /\ method \in authExemptMethodsNoUser)
            /\ (token = EmptyToken \/ ~verifyToken(token, queryOk))
         THEN "Forbidden: Invalid token."
         ELSE ""

\* variant of gate that uses the list of the with-user case in both cases
gate_withUserList(interface, namespace, method, token, queryOk) ==
    IF ~authenticationEnabled(interface) THEN ""
    ELSE IF users = {}
    THEN IF /\ ~(namespace = "JSONRPC" /\ method \in authExemptMethodsWithUser)
            /\ (token = EmptyToken \/ ~verifyToken(token, queryOk))
         THEN "Initial setup required. Call CreateUser first."
         ELSE ""
    ELSE IF /\ ~(namespace = "JSONRPC" /\ method \in authExemptMethodsWithUser)
            /\ (token = EmptyToken \/ ~verifyToken(token, queryOk))
         THEN "Forbidden: Invalid token."
         ELSE ""

\* the authentication gate of processData: "" when the call may go on, else the
\* error of the unauthorized reply
gate(interface, namespace, method, token, queryOk) ==
    IF ~authenticationEnabled(interface) THEN ""
    ELSE IF users = {}
    THEN IF /\ ~(namespace = "JSONRPC" /\ method \in authExemptMethodsNoUser)
            /\ (token = EmptyToken \/ ~verifyToken(token, queryOk))
         THEN "Initial setup required. Call CreateUser first."
         ELSE ""
    ELSE IF /\ ~(namespace = "JSONRPC" /\ method \in authExemptMethodsWithUser)
            /\ (token = EmptyToken \/ ~verifyToken(token, queryOk))
         THEN "Forbidden: Invalid token."
         ELSE ""

\* ----------------------------------------------------------------- inputs
NoArgs == [enabled |-> FALSE, username |-> "", password |-> "", deviceName |-> "",
           tokenId |-> 0, paramsOk |-> TRUE]

\* the token of a request: none, an ill-formed one, or the first token the
\* server generated (valid, revoked, or never stored, as the run decides)
RequestTokens == {EmptyToken, BadToken, 1}

Request(namespace, method, token, args) ==
    [form |-> "ok", namespace |-> namespace, method |-> method, token |-> token,
     args |-> args]

\* messages that are no request: not JSON, no integer id, no Namespace.Method
Malformed ==
    {[form |-> f, namespace |-> "", method |-> "", token |-> EmptyToken, args |-> NoArgs] :
        f \in {"parseError", "noId", "badMethod"}}

\* requests without params
Plain(methods, tokens) == {Request(m[1], m[2], t, NoArgs) : m \in methods, t \in tokens}

SetNotificationStatusRequests(tokens) ==
    {Request("JSONRPC", "SetNotificationStatus", t, [NoArgs EXCEPT !.enabled = e]) :
        t \in tokens, e \in BOOLEAN}

CreateUserRequests(tokens) ==
    {Request("JSONRPC", "CreateUser", t, [NoArgs EXCEPT !.username = a[1], !.password = a[2]]) :
        t \in tokens,
        a \in {<<"Alice@guh.io", GoodPassword>>, <<"bob@guh.io", GoodPassword>>,
               <<"bob@guh.io", WeakPassword>>, <<"nobody", GoodPassword>>}}

AuthenticateRequests(tokens) ==
    {Request("JSONRPC", "Authenticate", t,
             [NoArgs EXCEPT !.username = a[1], !.password = a[2], !.deviceName = "phoneA"]) :
        t \in tokens,
        a \in {<<"alice@guh.io", GoodPassword>>, <<"alice@guh.io", OtherPassword>>,
               <<"nobody", GoodPassword>>}}

RequestPushButtonAuthRequests(tokens, deviceNames) ==
    {Request("JSONRPC", "RequestPushButtonAuth", t, [NoArgs EXCEPT !.deviceName = d]) :
        t \in tokens, d \in deviceNames}

RemoveTokenRequests(tokens) ==
    {Request("JSONRPC", "RemoveToken", t, [NoArgs EXCEPT !.tokenId = i]) :
        t \in tokens, i \in 1 .. MaxTokens}

\* a request whose params do not fit the method's declaration
InvalidParams ==
    {Request("JSONRPC", "SetNotificationStatus", EmptyToken, [NoArgs EXCEPT !.paramsOk = FALSE])}

\* the outcomes of the statements of one processData call: the token query of
\* the gate (a failing query and a query without a matching row give the same
\* answer, so failure is drawn only when a row matches), and the statement of
\* the handler whose error the code inspects
QueryOutcomes(msg) == IF verifyToken(msg.token, TRUE) THEN BOOLEAN ELSE {TRUE}

ExecOutcomes(msg) ==
    IF msg.method \in {"CreateUser", "Authenticate", "Tokens", "RemoveToken"}
    THEN BOOLEAN ELSE {TRUE}

\* ------------------------------------------------------------------ state
\* the server, the user manager and the rule engine after construction
InitServer ==
    /\ usersTable = {}
    /\ tokensTable = {}
    /\ uuidCounter = 0
    /\ m_pushButtonTransaction = [first |-> NoTransaction, second |-> ""]
    /\ m_pushButtonTransactionIdCounter = 0
    /\ m_clientTransports = EmptyMap
    /\ m_clientNotifications = EmptyMap
    /\ m_pushButtonTransactions = EmptyMap
    /\ m_notificationId = 0
    /\ call = [op |-> "init", client |-> NoClient, form |-> "", namespace |-> "",
               method |-> "", verified |-> FALSE, status |-> "", error |-> "",
               handler |-> "", result |-> <<>>, args |-> NoArgs, execOk |-> TRUE]
    /\ signals = <<>>
    /\ notes = <<>>
    /\ issuedTo = EmptyMap
    /\ revoked = {}
    /\ finishedTx = {}
    /\ m_rules = EmptyMap
    /\ m_ruleIds = <<>>
    /\ m_activeRules = {}
    /\ m_lastEvaluationTime = NoTime
    /\ settings = EmptyMap
    /\ deviceState = FALSE
    /\ clock = 0
    /\ ruleCall = [op |-> "init"]
    /\ replies = EmptyMap
    /\ m_asyncReplies = EmptyMap
    /\ m_pairingRequests = EmptyMap
    /\ aws_pairingRequests = EmptyMap
    /\ sent = EmptyMap
    /\ asyncCall = [op |-> "init"]

\* no EventDescriptor is held for comparison
NoDescriptor == [eventTypeId |-> "", deviceId |-> "", interface |-> "", interfaceEvent |-> "",
                 paramDescriptors |-> <<>>]

Init ==
    /\ InitServer
    /\ thisDescriptor = NoDescriptor
    /\ otherDescriptor = NoDescriptor
    /\ equality = [op |-> "init"]

userVars == <<usersTable, tokensTable, uuidCounter, issuedTo, revoked>>
txVars   == <<m_pushButtonTransaction, m_pushButtonTransactionIdCounter,
              m_pushButtonTransactions, finishedTx>>
connVars == <<m_clientTransports, m_clientNotifications>>

\* the record of an operation other than processData
Called(op, client, result) ==
    [op |-> op, client |-> client, form |-> "", namespace |-> "", method |-> "",
     verified |-> FALSE, status |-> "", error |-> "", handler |-> "", result |-> result,
     args |-> NoArgs, execOk |-> TRUE]

\* the record of a processData call and its reply; verified is what verifyToken
\* answers for the message's token when the message arrives; args and execOk
\* are the params of an Authenticate call and whether its INSERT succeeds
Replied(clientId, msg, status, error, handler, result) ==
    [op |-> "processData", client |-> clientId, form |-> msg.form,
     namespace |-> msg.namespace, method |-> msg.method, verified |-> msg.verified,
     status |-> status, error |-> error, handler |-> handler, result |-> result,
     args |-> NoArgs, execOk |-> TRUE]

\* ---------------------------------------------------- JSONRPC handlers
\* Each handler is the part of processData from the invocation on: the method
\* itself, every slot its signals run, and the success reply.

\* Introspect, Hello, Version, Rules.GetRules: no state is changed
ReadOnlyMethod(clientId, interface, msg) ==
    /\ call' = Replied(clientId, msg, "success", "", msg.namespace \o "." \o msg.method,
                       IF msg.method = "Hello" THEN createWelcomeMessage(interface) ELSE <<>>)
    /\ signals' = <<>>
    /\ notes' = <<>>
    /\ UNCHANGED <<userVars, txVars, connVars, m_notificationId>>

\* JsonRPCServer::SetNotificationStatus
SetNotificationStatus(clientId, msg) ==
    /\ m_clientNotifications' = With(m_clientNotifications, clientId, msg.args.enabled)
    /\ call' = Replied(clientId, msg, "success", "", "JSONRPC.SetNotificationStatus",
                       [enabled |-> msg.args.enabled])
    /\ signals' = <<>>
    /\ notes' = <<>>
    /\ UNCHANGED <<userVars, txVars, m_clientTransports, m_notificationId>>

\* JsonRPCServer::CreateUser
CreateUser(clientId, msg, execOk) ==
    LET r == createUser(msg.args.username, msg.args.password, execOk)
    IN  /\ usersTable' = r.users
        /\ call' = Replied(clientId, msg, "success", "", "JSONRPC.CreateUser",
                           [error |-> r.error])
        /\ signals' = <<>>
        /\ notes' = <<>>
        /\ UNCHANGED <<tokensTable, uuidCounter, issuedTo, revoked, txVars, connVars,
                       m_notificationId>>

\* JsonRPCServer::Authenticate
Authenticate(clientId, msg, execOk) ==
    LET r == authenticate(msg.args.username, msg.args.password, msg.args.deviceName, execOk)
    IN  /\ r.drawn => uuidCounter < MaxTokens
        /\ tokensTable' = r.tokens
        /\ uuidCounter' = IF r.drawn THEN uuidCounter + 1 ELSE uuidCounter
        /\ issuedTo' = IF r.token # EmptyToken
                       THEN With(issuedTo, r.token, msg.args.username)
                       ELSE issuedTo
        /\ call' = [Replied(clientId, msg, "success", "", "JSONRPC.Authenticate",
                            IF r.token # EmptyToken
                            THEN [success |-> TRUE, token |-> r.token]
                            ELSE [success |-> FALSE])
                      EXCEPT !.args = msg.args, !.execOk = execOk]
        /\ signals' = <<>>
        /\ notes' = <<>>
        /\ UNCHANGED <<usersTable, revoked, txVars, connVars, m_notificationId>>

\* JsonRPCServer::RequestPushButtonAuth
RequestPushButtonAuth(clientId, msg) ==
    LET r == requestPushButtonAuth(msg.args.deviceName)
        d == deliver(r.signals, m_pushButtonTransactions, m_clientTransports,
                     m_clientNotifications)
    IN  /\ m_pushButtonTransactionIdCounter < MaxTx
        /\ m_pushButtonTransaction' = r.tr
        /\ m_pushButtonTransactionIdCounter' = r.counter
        /\ m_pushButtonTransactions' = With(d.txs, r.transactionId, clientId)
        /\ finishedTx' = finishedTx \cup Finished(r.signals)
        /\ call' = Replied(clientId, msg, "success", "", "JSONRPC.RequestPushButtonAuth",
                           [transactionId |-> r.transactionId, success |-> TRUE])
        /\ signals' = r.signals
        /\ notes' = d.notes
        /\ UNCHANGED <<userVars, connVars, m_notificationId>>

\* JsonRPCServer::Tokens
Tokens(clientId, msg, queryOk) ==
    LET username == userForToken(msg.token, queryOk)
    IN  /\ call' = Replied(clientId, msg, "success", "", "JSONRPC.Tokens",
                           [username |-> username, assertion |-> username # ""])
        /\ signals' = <<>>
        /\ notes' = <<>>
        /\ UNCHANGED <<userVars, txVars, connVars, m_notificationId>>

\* JsonRPCServer::RemoveToken
RemoveToken(clientId, msg, execOk) ==
    LET r == removeToken(msg.args.tokenId, execOk)
    IN  /\ tokensTable' = r.tokens
        /\ revoked' = IF execOk /\ msg.args.tokenId \in DOMAIN issuedTo
                      THEN revoked \cup {msg.args.tokenId}
                      ELSE revoked
        /\ call' = Replied(clientId, msg, "success", "", "JSONRPC.RemoveToken",
                           [error |-> r.error])
        /\ signals' = <<>>
        /\ notes' = <<>>
        /\ UNCHANGED <<usersTable, uuidCounter, issuedTo, txVars, connVars,
                       m_notificationId>>

\* an error or unauthorized reply: processData returns before any handler runs
Refuse(clientId, msg, status, error) ==
    /\ call' = Replied(clientId, msg, status, error, "", <<>>)
    /\ signals' = <<>>
    /\ notes' = <<>>
    /\ UNCHANGED <<userVars, txVars, connVars, m_notificationId>>

\* QMetaObject::invokeMethod(handler, method, ...) and the reply that follows
Invoke(clientId, interface, msg, execOk) ==
    CASE msg.method = "SetNotificationStatus" -> SetNotificationStatus(clientId, msg)
      [] msg.method = "CreateUser"            -> CreateUser(clientId, msg, execOk)
      [] msg.method = "Authenticate"          -> Authenticate(clientId, msg, execOk)
      [] msg.method = "RequestPushButtonAuth" -> RequestPushButtonAuth(clientId, msg)
      [] msg.method = "Tokens"                -> Tokens(clientId, msg, execOk)
      [] msg.method = "RemoveToken"           -> RemoveToken(clientId, msg, execOk)
      [] OTHER                                -> ReadOnlyMethod(clientId, interface, msg)

\* JsonRPCServer::processData, for a message of a connected client
processData(clientId, msg, queryOk, execOk) ==
    /\ clientId \in DOMAIN m_clientTransports
    /\ UNCHANGED <<descriptorVars, asyncVars, ruleVars>>
    /\ LET interface == m_clientTransports[clientId]
           denied == gate(interface, msg.namespace, msg.method, msg.token, queryOk)
           m == [form |-> msg.form, namespace |-> msg.namespace, method |-> msg.method,
                 token |-> msg.token, args |-> msg.args,
                 verified |-> verifyToken(msg.token, queryOk)]
       IN  IF msg.form = "parseError"
           THEN Refuse(clientId, m, "error", "Failed to parse JSON data")
           ELSE IF msg.form = "noId"
           THEN Refuse(clientId, m, "error", "Error parsing command. Missing 'id'")
           ELSE IF msg.form = "badMethod"
           THEN Refuse(clientId, m, "error", "Error parsing method.")
           ELSE IF denied # ""
           THEN Refuse(clientId, m, "unauthorized", denied)
           ELSE IF msg.namespace \notin Namespaces
           THEN Refuse(clientId, m, "error", "No such namespace")
           ELSE IF msg.method \notin Methods(msg.namespace)
           THEN Refuse(clientId, m, "error", "No such method")
           ELSE IF ~msg.args.paramsOk
           THEN Refuse(clientId, m, "error", "Invalid params")
           ELSE Invoke(clientId, interface, m, execOk)

\* variant of clientConnected that enables notifications on every transport
clientConnected_enabled(clientId, interface) ==
    /\ clientId \notin DOMAIN m_clientTransports
    /\ m_clientTransports' = With(m_clientTransports, clientId, interface)
    /\ m_clientNotifications' = With(m_clientNotifications, clientId, TRUE)
    /\ call' = Called("clientConnected", clientId, createWelcomeMessage(interface))
    /\ signals' = <<>>
    /\ notes' = <<>>
    /\ UNCHANGED <<descriptorVars, asyncVars, ruleVars, userVars, txVars, m_notificationId>>

\* JsonRPCServer::clientConnected: a new client id appears on an interface
clientConnected(clientId, interface) ==
    /\ clientId \notin DOMAIN m_clientTransports
    /\ m_clientTransports' = With(m_clientTransports, clientId, interface)
    /\ m_clientNotifications' = With(m_clientNotifications, clientId,
                                     ~authenticationEnabled(interface))
    /\ call' = Called("clientConnected", clientId, createWelcomeMessage(interface))
    /\ signals' = <<>>
    /\ notes' = <<>>
    /\ UNCHANGED <<descriptorVars, asyncVars, ruleVars, userVars, txVars, m_notificationId>>

\* JsonRPCServer::clientDisconnected
clientDisconnected(clientId) ==
    /\ clientId \in DOMAIN m_clientTransports
    /\ LET transports == Without(m_clientTransports, clientId)
           flags == Without(m_clientNotifications, clientId)
       IN  /\ m_clientTransports' = transports
           /\ m_clientNotifications' = flags
           /\ IF clientId \in Range(m_pushButtonTransactions)
              THEN \E transactionId \in {t \in DOMAIN m_pushButtonTransactions :
                                            m_pushButtonTransactions[t] = clientId} :
                      LET c == cancelPushButtonAuth(m_pushButtonTransaction, transactionId)
                          d == deliver(c.signals, m_pushButtonTransactions, transports, flags)
                      IN  /\ m_pushButtonTransaction' = c.tr
                          /\ m_pushButtonTransactions' = d.txs
                          /\ finishedTx' = finishedTx \cup Finished(c.signals)
                          /\ signals' = c.signals
                          /\ notes' = d.notes
              ELSE /\ signals' = <<>>
                   /\ notes' = <<>>
                   /\ UNCHANGED <<m_pushButtonTransaction, m_pushButtonTransactions,
                                  finishedTx>>
    /\ call' = Called("clientDisconnected", clientId, <<>>)
    /\ UNCHANGED <<descriptorVars, asyncVars, ruleVars, userVars, m_pushButtonTransactionIdCounter, m_notificationId>>

\* JsonRPCServer::onCloudConnectedChanged: a handler signal, broadcast by
\* sendNotification
onCloudConnectedChanged(connected) ==
    /\ m_notificationId < MaxNotif
    /\ notes' = <<sendNotification("JSONRPC.CloudConnectedChanged",
                                   [connected |-> connected])>>
    /\ m_notificationId' = m_notificationId + 1
    /\ call' = Called("onCloudConnectedChanged", NoClient, <<>>)
    /\ signals' = <<>>
    /\ UNCHANGED <<descriptorVars, asyncVars, ruleVars, userVars, txVars, connVars>>

\* ------------------------------------- PushButtonDBusService and direct calls

\* PushButtonDBusService::PushButtonPressed
PushButtonPressed(execOk) ==
    LET r == pushButtonPressed(m_pushButtonTransaction, tokensTable, execOk)
        d == deliver(r.signals, m_pushButtonTransactions, m_clientTransports,
                     m_clientNotifications)
    IN  /\ r.drawn => uuidCounter < MaxTokens
        /\ m_pushButtonTransaction' = r.tr
        /\ tokensTable' = r.tokens
        /\ uuidCounter' = IF r.drawn THEN uuidCounter + 1 ELSE uuidCounter
        /\ m_pushButtonTransactions' = d.txs
        /\ finishedTx' = finishedTx \cup Finished(r.signals)
        /\ call' = Called("pushButtonPressed", NoClient, [execOk |-> execOk])
        /\ signals' = r.signals
        /\ notes' = d.notes
        /\ UNCHANGED <<descriptorVars, asyncVars, ruleVars, usersTable, issuedTo, revoked, m_pushButtonTransactionIdCounter,
                                 connVars, m_notificationId>>

\* the token the lambda of GenerateAuthToken holds after the signals sigs
RECURSIVE lambdaToken(_, _, _)
lambdaToken(sigs, transactionId, token) ==
    IF sigs = <<>> THEN token
    ELSE lambdaToken(Tail(sigs), transactionId,
                     IF Head(sigs).transactionId = transactionId
                     THEN Head(sigs).token ELSE token)

\* PushButtonDBusService::GenerateAuthToken
GenerateAuthToken(deviceName, execOk) ==
    LET q  == requestPushButtonAuth(deviceName)
        d1 == deliver(q.signals, m_pushButtonTransactions, m_clientTransports,
                      m_clientNotifications)
        r  == pushButtonPressed(q.tr, tokensTable, execOk)
        d2 == deliver(r.signals, d1.txs, m_clientTransports, m_clientNotifications)
    IN  /\ m_pushButtonTransactionIdCounter < MaxTx
        /\ uuidCounter < MaxTokens
        /\ m_pushButtonTransaction' = r.tr
        /\ m_pushButtonTransactionIdCounter' = q.counter
        /\ tokensTable' = r.tokens
        /\ uuidCounter' = uuidCounter + 1
        /\ m_pushButtonTransactions' = d2.txs
        /\ finishedTx' = finishedTx \cup Finished(q.signals \o r.signals)
        /\ call' = Called("GenerateAuthToken", NoClient,
                          [token |-> lambdaToken(r.signals, q.transactionId, EmptyToken)])
        /\ signals' = q.signals \o r.signals
        /\ notes' = d1.notes \o d2.notes
        /\ UNCHANGED <<descriptorVars, asyncVars, ruleVars, usersTable, issuedTo, revoked, connVars, m_notificationId>>

\* UserManager::cancelPushButtonAuth called with any transaction id
CancelPushButtonAuth(transactionId) ==
    LET c == cancelPushButtonAuth(m_pushButtonTransaction, transactionId)
        d == deliver(c.signals, m_pushButtonTransactions, m_clientTransports,
                     m_clientNotifications)
    IN  /\ m_pushButtonTransaction' = c.tr
        /\ m_pushButtonTransactions' = d.txs
        /\ finishedTx' = finishedTx \cup Finished(c.signals)
        /\ call' = Called("cancelPushButtonAuth", NoClient, [transactionId |-> transactionId])
        /\ signals' = c.signals
        /\ notes' = d.notes
        /\ UNCHANGED <<descriptorVars, asyncVars, ruleVars, userVars, m_pushButtonTransactionIdCounter, connVars,
                                 m_notificationId>>

\* UserManager::removeUser
RemoveUser(username) ==
    LET r == removeUser(username)
    IN  /\ usersTable' = r.users
        /\ tokensTable' = r.tokens
        /\ revoked' = IF \E u \in usersTable : toLower(u.username) = toLower(username)
                      THEN revoked \cup {t \in DOMAIN issuedTo :
                                            toLower(issuedTo[t]) = toLower(username)}
                      ELSE revoked
        /\ call' = Called("removeUser", NoClient, [username |-> username, error |-> r.error])
        /\ signals' = <<>>
        /\ notes' = <<>>
        /\ UNCHANGED <<descriptorVars, asyncVars, ruleVars, uuidCounter, issuedTo, txVars, connVars, m_notificationId>>

\* ------------------------------------------------------------ specification
\* Users, tokens and the authentication gate: one client, on either interface,
\* sending every kind of request with every kind of token.
AuthMessages ==
    Malformed
    \cup Plain({<<"JSONRPC", "Tokens">>, <<"Rules", "GetRules">>}, RequestTokens)
    \cup Plain({<<"JSONRPC", "Hello">>, <<"Rules", "Hello">>}, {EmptyToken, 1})
    \cup Plain({<<"JSONRPC", "Introspect">>, <<"Foo", "Bar">>}, {EmptyToken})
    \cup CreateUserRequests({EmptyToken, 1})
    \cup AuthenticateRequests({EmptyToken, 1})
    \cup RequestPushButtonAuthRequests({EmptyToken}, {"phoneA"})
    \cup RemoveTokenRequests({EmptyToken, 1})

NextAuth ==
    \/ \E interface \in Interfaces : clientConnected("c1", interface)
    \/ clientDisconnected("c1")
    \/ \E msg \in AuthMessages :
         \E queryOk \in QueryOutcomes(msg), execOk \in ExecOutcomes(msg) :
           processData("c1", msg, queryOk, execOk)
    \/ \E execOk \in BOOLEAN : PushButtonPressed(execOk)
    \/ \E username \in {"Alice@guh.io", "bob@guh.io"} : RemoveUser(username)

SpecAuth == Init /\ [][NextAuth]_vars

\* Push-button transactions and notifications: two clients, each on either
\* interface, the button, the D-Bus call and the cloud signal.
PushMessages ==
    RequestPushButtonAuthRequests({EmptyToken}, DeviceNames)
    \cup SetNotificationStatusRequests(RequestTokens)
    \cup InvalidParams

NextPush ==
    \/ \E clientId \in Clients, interface \in Interfaces : clientConnected(clientId, interface)
    \/ \E clientId \in Clients : clientDisconnected(clientId)
    \/ \E clientId \in Clients, msg \in PushMessages :
         \E queryOk \in QueryOutcomes(msg), execOk \in ExecOutcomes(msg) :
           processData(clientId, msg, queryOk, execOk)
    \/ \E connected \in BOOLEAN : onCloudConnectedChanged(connected)
    \/ \E execOk \in BOOLEAN : PushButtonPressed(execOk)
    \/ \E deviceName \in DeviceNames, execOk \in BOOLEAN : GenerateAuthToken(deviceName, execOk)
    \/ \E transactionId \in 1 .. MaxTx : CancelPushButtonAuth(transactionId)

SpecPush == Init /\ [][NextPush]_vars

\* ============================================================= RuleEngine
\* RuleEngine (unnamed/part_001) and Rule (rule.cpp, held in
\* pushbuttondbusservice.h).  One action is one public call of the engine.
\*
\* The clock is a small range of moments; a time of day is [valid, hh, mm, ss]
\* and the moment t is hh = t of one day.  A QDateTime is its time_t, NoTime
\* when invalid.  One device d1 is configured; its class has the state type
\* S1 (whose change is announced by an event of type S1), the event type E1
\* and the action type A1.

RuleIds == {"r1", "r2"}
NullId  == ""                       \* RuleId(): id().isNull()

Moments == 0 .. LastMoment

ConfiguredDevices == {"d1"}         \* the devices findConfiguredDevice finds
DeviceEventTypes  == {"E1", "S1"}   \* deviceClass.eventTypes()
DeviceStateTypes  == {"S1"}
DeviceActionTypes == {"A1"}         \* deviceClass.hasActionType
ActionParamValues == {"on", "off"}  \* the values verifyParams accepts for A1
NoValue == "none"                   \* QVariant()

\* ------------------------------------------------------------ value types
QTime(hh, mm, ss) == [valid |-> TRUE, hh |-> hh, mm |-> mm, ss |-> ss]

InvalidQTime == [valid |-> FALSE, hh |-> 0, mm |-> 0, ss |-> 0]

RepeatingOption(mode, weekDays, monthDays) ==
    [mode |-> mode, weekDays |-> weekDays, monthDays |-> monthDays]

NoRepeating == RepeatingOption("None", <<>>, <<>>)

\* RepeatingOption::isEmtpy
RepeatingOption_isEmtpy(o) ==
    o.mode = "None" /\ o.weekDays = <<>> /\ o.monthDays = <<>>

\* RepeatingOption::isValid
RepeatingOption_isValid(o) ==
    CASE o.mode = "Weekly"  -> o.weekDays # <<>> /\ o.monthDays = <<>>
      [] o.mode = "Monthly" -> o.monthDays # <<>> /\ o.weekDays = <<>>
      [] OTHER -> o.weekDays = <<>> /\ o.monthDays = <<>>

CalendarItem(dateTime, startTime, duration, repeatingOption) ==
    [dateTime |-> dateTime, startTime |-> startTime, duration |-> duration,
     repeatingOption |-> repeatingOption]

\* CalendarItem::isValid: exactly one of dateTime and startTime, a duration
CalendarItem_isValid(c) ==
    /\ (c.dateTime # NoTime) # c.startTime.valid
    /\ c.duration > 0

\* CalendarItem::evaluate: the moment lies in the item's window
CalendarItem_evaluate(c, dateTime) ==
    LET start == IF c.startTime.valid THEN c.startTime.hh ELSE c.dateTime
    IN  start <= dateTime /\ dateTime < start + c.duration

TimeEventItem(dateTime, time, repeatingOption) ==
    [dateTime |-> dateTime, time |-> time, repeatingOption |-> repeatingOption]

\* TimeEventItem::isValid: exactly one of dateTime and time
TimeEventItem_isValid(t) == (t.dateTime # NoTime) # t.time.valid

\* TimeEventItem::evaluate: the instant lies in (lastEvaluationTime, dateTime]
TimeEventItem_evaluate(t, lastEvaluationTime, dateTime) ==
    LET at == IF t.time.valid THEN t.time.hh ELSE t.dateTime
    IN  lastEvaluationTime < at /\ at <= dateTime

TimeDescriptor(calendarItems, timeEventItems) ==
    [calendarItems |-> calendarItems, timeEventItems |-> timeEventItems]

NoTimeDescriptor == TimeDescriptor(<<>>, <<>>)

\* TimeDescriptor::isEmpty
TimeDescriptor_isEmpty(td) == td.calendarItems = <<>> /\ td.timeEventItems = <<>>

\* TimeDescriptor::isValid: it describes some time
TimeDescriptor_isValid(td) == td.calendarItems # <<>> \/ td.timeEventItems # <<>>

\* variant of TimeDescriptor::evaluate that asks the calendar items for the
\* last evaluation time
TimeDescriptor_evaluate_sinceLast(td, lastEvaluationTime, dateTime) ==
    \/ \E i \in DOMAIN td.calendarItems :
         CalendarItem_evaluate(td.calendarItems[i], lastEvaluationTime)
    \/ \E i \in DOMAIN td.timeEventItems :
         TimeEventItem_evaluate(td.timeEventItems[i], lastEvaluationTime, dateTime)

\* TimeDescriptor::evaluate
TimeDescriptor_evaluate(td, lastEvaluationTime, dateTime) ==
    \/ \E i \in DOMAIN td.calendarItems :
         CalendarItem_evaluate(td.calendarItems[i], dateTime)
    \/ \E i \in DOMAIN td.timeEventItems :
         TimeEventItem_evaluate(td.timeEventItems[i], lastEvaluationTime, dateTime)

\* StateDescriptor: the state stateTypeId of deviceId equals stateValue
StateDescriptor(stateTypeId, deviceId, stateValue) ==
    [valid |-> TRUE, stateTypeId |-> stateTypeId, deviceId |-> deviceId,
     stateValue |-> stateValue]

InvalidStateDescriptor ==
    [valid |-> FALSE, stateTypeId |-> "", deviceId |-> "", stateValue |-> FALSE]

StateEvaluator(stateDescriptor, childEvaluators) ==
    [stateDescriptor |-> stateDescriptor, childEvaluators |-> childEvaluators]

NoStateEvaluator == StateEvaluator(InvalidStateDescriptor, <<>>)

\* StateEvaluator::isValid: every leaf names a state type of a configured device
RECURSIVE StateEvaluator_isValid(_)
StateEvaluator_isValid(se) ==
    /\ se.stateDescriptor.valid =>
         /\ se.stateDescriptor.deviceId \in ConfiguredDevices
         /\ se.stateDescriptor.stateTypeId \in DeviceStateTypes
    /\ \A i \in DOMAIN se.childEvaluators : StateEvaluator_isValid(se.childEvaluators[i])

\* StateEvaluator::evaluate with the operator AND: the device's state is value
RECURSIVE StateEvaluator_evaluate(_, _)
StateEvaluator_evaluate(se, value) ==
    /\ se.stateDescriptor.valid =>
         /\ se.stateDescriptor.deviceId \in ConfiguredDevices
         /\ se.stateDescriptor.stateTypeId \in DeviceStateTypes
         /\ se.stateDescriptor.stateValue = value
    /\ \A i \in DOMAIN se.childEvaluators :
         StateEvaluator_evaluate(se.childEvaluators[i], value)

\* StateEvaluator::removeDevice: the leaves of the device are pruned
RECURSIVE StateEvaluator_removeDevice(_, _)
StateEvaluator_removeDevice(se, deviceId) ==
    LET kept == SelectSeq(se.childEvaluators,
                          LAMBDA c : ~(c.stateDescriptor.valid
                                       /\ c.stateDescriptor.deviceId = deviceId
                                       /\ c.childEvaluators = <<>>))
    IN  StateEvaluator(IF se.stateDescriptor.deviceId = deviceId
                       THEN InvalidStateDescriptor ELSE se.stateDescriptor,
                       [i \in DOMAIN kept |-> StateEvaluator_removeDevice(kept[i], deviceId)])

\* EventDescriptor with at most one ParamDescriptor (NoValue: none)
EventDescriptor(eventTypeId, deviceId, paramValue) ==
    [eventTypeId |-> eventTypeId, deviceId |-> deviceId, paramValue |-> paramValue]

Event(eventTypeId, deviceId, paramValue) ==
    [eventTypeId |-> eventTypeId, deviceId |-> deviceId, paramValue |-> paramValue]

\* EventDescriptor::operator==(Event)
EventDescriptor_matches(eventDescriptor, event) ==
    /\ eventDescriptor.eventTypeId = event.eventTypeId
    /\ eventDescriptor.deviceId = event.deviceId
    /\ eventDescriptor.paramValue \in {NoValue, event.paramValue}

\* RuleAction with one RuleActionParam: a value, or the param of an event
RuleAction(actionTypeId, deviceId, value, eventTypeId) ==
    [actionTypeId |-> actionTypeId, deviceId |-> deviceId, value |-> value,
     eventTypeId |-> eventTypeId]

\* RuleAction::isEventBased
isEventBased(action) == action.eventTypeId # ""

\* RuleActionParam::isValid: a value or an event binding, not both
RuleActionParam_isValid(action) == (action.value # NoValue) # (action.eventTypeId # "")

\* ------------------------------------------------------------------- Rule
\* Rule::Rule and its setters: the runtime flags start false
Rule(id, name, enabled, timeDescriptor, stateEvaluator, eventDescriptors, actions, exitActions) ==
    [id |-> id, name |-> name, enabled |-> enabled, executable |-> TRUE,
     timeDescriptor |-> timeDescriptor, stateEvaluator |-> stateEvaluator,
     eventDescriptors |-> eventDescriptors, actions |-> actions,
     exitActions |-> exitActions,
     active |-> FALSE, statesActive |-> FALSE, timeActive |-> FALSE]

\* Rule(): what findRule answers for an unknown id
NoRule ==
    [Rule(NullId, "", FALSE, NoTimeDescriptor, NoStateEvaluator, <<>>, <<>>, <<>>)
       EXCEPT !.executable = FALSE]

\* Rule::timeActive
timeActive(rule) ==
    IF rule.timeDescriptor.calendarItems = <<>> THEN TRUE ELSE rule.timeActive

\* Rule::isConsistent
isConsistent_ignoresExitActions(rule) == rule.actions # <<>>

isConsistent(rule) ==
    IF rule.eventDescriptors # <<>> /\ rule.exitActions # <<>> THEN FALSE
    ELSE IF rule.timeDescriptor.timeEventItems # <<>> /\ rule.exitActions # <<>> THEN FALSE
    ELSE IF rule.actions = <<>> THEN FALSE
    ELSE TRUE

\* ------------------------------------------------------- the rule settings
\* QTime::toString("hh:mm")
QTime_toString(t) == <<t.hh, t.mm>>

\* QTime::fromString of a stored string; a missing key reads as the empty
\* string, here <<>>
QTime_fromString(str) == IF str = <<>> THEN InvalidQTime ELSE QTime(str[1], str[2], 0)

\* settings.value(key, defaultValue) inside the group g
value(g, key, defaultValue) == IF key \in DOMAIN g THEN g[key] ELSE defaultValue

\* the keys saveRule writes in the group CalendarItem-i
saveCalendarItem(c) ==
    LET keys == {"duration", "mode", "weekDays", "monthDays"}
                  \cup (IF c.dateTime # NoTime THEN {"dateTime"} ELSE {})
                  \cup (IF c.startTime.valid THEN {"startTime"} ELSE {})
    IN  [k \in keys |->
           CASE k = "dateTime"  -> c.dateTime
             [] k = "startTime" -> QTime_toString(c.startTime)
             [] k = "duration"  -> c.duration
             [] k = "mode"      -> c.repeatingOption.mode
             [] k = "weekDays"  -> c.repeatingOption.weekDays
             [] k = "monthDays" -> c.repeatingOption.monthDays]

\* the keys saveRule writes in the group TimeEventItem-i
saveTimeEventItem(t) ==
    LET keys == {"mode", "weekDays", "monthDays"}
                  \cup (IF t.dateTime # NoTime THEN {"dateTime"} ELSE {})
                  \cup (IF t.time.valid THEN {"time"} ELSE {})
    IN  [k \in keys |->
           CASE k = "dateTime"  -> t.dateTime
             [] k = "time"      -> QTime_toString(t.time)
             [] k = "mode"      -> t.repeatingOption.mode
             [] k = "weekDays"  -> t.repeatingOption.weekDays
             [] k = "monthDays" -> t.repeatingOption.monthDays]

\* the group EventDescriptor-i, with its ParamDescriptor group if there is one
saveEventDescriptor(e) ==
    LET keys == {"deviceId", "eventTypeId"}
                  \cup (IF e.paramValue # NoValue THEN {"ParamDescriptor"} ELSE {})
    IN  [k \in keys |->
           CASE k = "deviceId"        -> e.deviceId
             [] k = "eventTypeId"     -> e.eventTypeId
             [] k = "ParamDescriptor" -> e.paramValue]

\* the numbered group of a rule action with its RuleActionParam group
saveRuleAction(a) ==
    LET keys == {"deviceId", "actionTypeId", "value"}
                  \cup (IF a.eventTypeId # "" THEN {"eventTypeId"} ELSE {})
    IN  [k \in keys |->
           CASE k = "deviceId"     -> a.deviceId
             [] k = "actionTypeId" -> a.actionTypeId
             [] k = "value"        -> a.value
             [] k = "eventTypeId"  -> a.eventTypeId]

\* the numbered group of a rule exit action: the param's value only
saveRuleExitAction(a) ==
    [deviceId |-> a.deviceId, actionTypeId |-> a.actionTypeId, value |-> a.value]

\* StateEvaluator::dumpToSettings
RECURSIVE dumpToSettings(_)
dumpToSettings(se) ==
    [stateDescriptor |->
       IF se.stateDescriptor.valid
       THEN [stateTypeId |-> se.stateDescriptor.stateTypeId,
             deviceId |-> se.stateDescriptor.deviceId,
             value |-> se.stateDescriptor.stateValue]
       ELSE EmptyMap,
     childEvaluators |->
       [i \in DOMAIN se.childEvaluators |-> dumpToSettings(se.childEvaluators[i])]]

\* StateEvaluator::loadFromSettings
RECURSIVE loadFromSettings(_)
loadFromSettings(g) ==
    StateEvaluator(
       IF "stateTypeId" \in DOMAIN g.stateDescriptor
       THEN StateDescriptor(g.stateDescriptor.stateTypeId, g.stateDescriptor.deviceId,
                            g.stateDescriptor.value)
       ELSE InvalidStateDescriptor,
       [i \in DOMAIN g.childEvaluators |-> loadFromSettings(g.childEvaluators[i])])

\* the keys and values RuleEngine::saveRule writes for the rule
savedGroup(rule) ==
    [name |-> rule.name,
     enabled |-> rule.enabled,
     executable |-> rule.executable,
     calendarItems |->
       [i \in DOMAIN rule.timeDescriptor.calendarItems |->
          saveCalendarItem(rule.timeDescriptor.calendarItems[i])],
     timeEventItems |->
       [i \in DOMAIN rule.timeDescriptor.timeEventItems |->
          saveTimeEventItem(rule.timeDescriptor.timeEventItems[i])],
     events |->
       [i \in DOMAIN rule.eventDescriptors |-> saveEventDescriptor(rule.eventDescriptors[i])],
     stateEvaluator |-> dumpToSettings(rule.stateEvaluator),
     ruleActions |-> [i \in DOMAIN rule.actions |-> saveRuleAction(rule.actions[i])],
     ruleExitActions |->
       [i \in DOMAIN rule.exitActions |-> saveRuleExitAction(rule.exitActions[i])]]

\* the rule the constructor of RuleEngine builds from the group idString
loadRule(idString, g) ==
    LET calendarItems ==
          [i \in DOMAIN g.calendarItems |->
             LET c == g.calendarItems[i]
             IN  CalendarItem(value(c, "dateTime", 0),
                              QTime_fromString(value(c, "startTime", <<>>)),
                              value(c, "duration", 0),
                              RepeatingOption(value(c, "mode", "None"), c.weekDays,
                                              c.monthDays))]
        timeEventItems ==
          [i \in DOMAIN g.timeEventItems |->
             LET t == g.timeEventItems[i]
             IN  TimeEventItem(value(t, "dateTime", 0),
                               QTime_fromString(value(t, "time", <<>>)),
                               RepeatingOption(value(t, "mode", "None"), t.weekDays,
                                               t.monthDays))]
        eventDescriptorList ==
          [i \in DOMAIN g.events |->
             EventDescriptor(g.events[i].eventTypeId, g.events[i].deviceId,
                             value(g.events[i], "ParamDescriptor", NoValue))]
        actions ==
          [i \in DOMAIN g.ruleActions |->
             RuleAction(g.ruleActions[i].actionTypeId, g.ruleActions[i].deviceId,
                        value(g.ruleActions[i], "value", NoValue),
                        value(g.ruleActions[i], "eventTypeId", ""))]
        exitActions ==
          [i \in DOMAIN g.ruleExitActions |->
             RuleAction(g.ruleExitActions[i].actionTypeId, g.ruleExitActions[i].deviceId,
                        g.ruleExitActions[i].value, "")]
    IN  [Rule(idString, value(g, "name", idString), value(g, "enabled", TRUE),
              TimeDescriptor(calendarItems, timeEventItems),
              loadFromSettings(g.stateEvaluator), eventDescriptorList, actions,
              exitActions)
           EXCEPT !.executable = value(g, "executable", TRUE)]

\* ------------------------------------------------------------- the engine
\* The engine's members as one value, so that a call inside a call (editRule
\* calling removeRule and addRule) works on what the inner call left.
\* m_activeRules is a QList used as a set: contains, append when absent,
\* removeAll.
Engine(rules, ruleIds, activeRules, store) ==
    [m_rules |-> rules, m_ruleIds |-> ruleIds, m_activeRules |-> activeRules,
     settings |-> store]

engine == Engine(m_rules, m_ruleIds, m_activeRules, settings)

\* the outcome of an engine call: the members after it, the RuleError it
\* returns, the signals it emitted and whether it called saveRule
Outcome(e, error, emitted, saved) ==
    [e |-> e, error |-> error, emitted |-> emitted, saved |-> saved]

\* QList::removeAll / takeAt of the one index the id is at
RemoveId(ids, id) == SelectSeq(ids, LAMBDA x : x # id)

\* RuleEngine::findRule
findRule(e, ruleId) == IF ruleId \in DOMAIN e.m_rules THEN e.m_rules[ruleId] ELSE NoRule

\* RuleEngine::containsEvent
containsEvent(rule, event) ==
    \E i \in DOMAIN rule.eventDescriptors :
       EventDescriptor_matches(rule.eventDescriptors[i], event)

\* RuleEngine::containsState
RECURSIVE containsState(_, _)
containsState(stateEvaluator, stateChangeEvent) ==
    \/ /\ stateEvaluator.stateDescriptor.valid
       /\ stateEvaluator.stateDescriptor.stateTypeId = stateChangeEvent.eventTypeId
    \/ \E i \in DOMAIN stateEvaluator.childEvaluators :
         containsState(stateEvaluator.childEvaluators[i], stateChangeEvent)

\* RuleEngine::checkEventDescriptors
checkEventDescriptors(eventDescriptors, eventTypeId) ==
    \E i \in DOMAIN eventDescriptors : eventDescriptors[i].eventTypeId = eventTypeId

\* RuleEngine::getEventParamType: the type of the param an event carries
getEventParamType(eventTypeId) ==
    IF eventTypeId = "E1" THEN "String" ELSE IF eventTypeId = "S1" THEN "Bool" ELSE "Invalid"

\* RuleEngine::getActionParamType
getActionParamType(actionTypeId) == IF actionTypeId = "A1" THEN "String" ELSE "Invalid"

\* RuleEngine::appendRule
appendRule(e, rule) ==
    LET newRule == [rule EXCEPT !.statesActive =
                      StateEvaluator_evaluate(rule.stateEvaluator, deviceState)]
    IN  [e EXCEPT !.m_rules = With(@, rule.id, newRule),
                  !.m_ruleIds = Append(@, rule.id)]

\* RuleEngine::saveRule; the group is new or holds the same keys
saveRule(e, rule) == [e EXCEPT !.settings = With(@, rule.id, savedGroup(rule))]

\* the first error in a list of check results
RECURSIVE firstError(_)
firstError(errors) ==
    IF errors = <<>> THEN "RuleErrorNoError"
    ELSE IF Head(errors) # "RuleErrorNoError" THEN Head(errors)
    ELSE firstError(Tail(errors))

\* addRule: the device and the event type of an event descriptor
checkEventDescriptor(eventDescriptor) ==
    IF eventDescriptor.deviceId \notin ConfiguredDevices THEN "RuleErrorDeviceNotFound"
    ELSE IF eventDescriptor.eventTypeId \notin DeviceEventTypes
    THEN "RuleErrorEventTypeNotFound"
    ELSE "RuleErrorNoError"

\* addRule: a calendar item and its repeating option
checkCalendarItem(calendarItem) ==
    IF ~CalendarItem_isValid(calendarItem) THEN "RuleErrorInvalidCalendarItem"
    ELSE IF /\ ~RepeatingOption_isEmtpy(calendarItem.repeatingOption)
            /\ ~RepeatingOption_isValid(calendarItem.repeatingOption)
    THEN "RuleErrorInvalidRepeatingOption"
    ELSE "RuleErrorNoError"

\* addRule: a time event item and its repeating option
checkTimeEventItem(timeEventItem) ==
    IF ~TimeEventItem_isValid(timeEventItem) THEN "RuleErrorInvalidTimeEventItem"
    ELSE IF /\ ~RepeatingOption_isEmtpy(timeEventItem.repeatingOption)
            /\ ~RepeatingOption_isValid(timeEventItem.repeatingOption)
    THEN "RuleErrorInvalidRepeatingOption"
    ELSE "RuleErrorNoError"

\* addRule: the time descriptor
checkTimeDescriptor(td) ==
    IF TimeDescriptor_isEmpty(td) THEN "RuleErrorNoError"
    ELSE IF ~TimeDescriptor_isValid(td) THEN "RuleErrorInvalidTimeDescriptor"
    ELSE firstError([i \in DOMAIN td.calendarItems |-> checkCalendarItem(td.calendarItems[i])]
                    \o [i \in DOMAIN td.timeEventItems |->
                          checkTimeEventItem(td.timeEventItems[i])])

\* addRule: an action of the rule
checkAction(rule, action) ==
    IF action.deviceId \notin ConfiguredDevices THEN "RuleErrorDeviceNotFound"
    ELSE IF action.actionTypeId \notin DeviceActionTypes THEN "RuleErrorActionTypeNotFound"
    ELSE IF isEventBased(action)
         /\ (\/ rule.eventDescriptors = <<>>
             \/ ~checkEventDescriptors(rule.eventDescriptors, action.eventTypeId))
    THEN "RuleErrorInvalidRuleActionParameter"
    ELSE IF isEventBased(action)
         /\ getEventParamType(action.eventTypeId) # getActionParamType(action.actionTypeId)
    THEN "RuleErrorTypesNotMatching"
    ELSE IF ~isEventBased(action) /\ action.value \notin ActionParamValues
    THEN "RuleErrorInvalidRuleActionParameter"
    ELSE IF ~RuleActionParam_isValid(action) THEN "RuleErrorInvalidRuleActionParameter"
    ELSE "RuleErrorNoError"

\* addRule: an exit action of the rule
checkExitAction(action) ==
    IF action.deviceId \notin ConfiguredDevices THEN "RuleErrorDeviceNotFound"
    ELSE IF action.actionTypeId \notin DeviceActionTypes THEN "RuleErrorActionTypeNotFound"
    ELSE IF action.value \notin ActionParamValues THEN "RuleErrorInvalidRuleActionParameter"
    ELSE IF isEventBased(action) THEN "RuleErrorInvalidRuleActionParameter"
    ELSE IF ~RuleActionParam_isValid(action) THEN "RuleErrorInvalidRuleActionParameter"
    ELSE "RuleErrorNoError"

\* the checks of addRule in the order the code makes them
checkRule(e, rule) ==
    IF rule.id = NullId THEN "RuleErrorInvalidRuleId"
    ELSE IF findRule(e, rule.id).id # NullId THEN "RuleErrorInvalidRuleId"
    ELSE IF ~isConsistent(rule) THEN "RuleErrorInvalidRuleFormat"
    ELSE firstError(
           [i \in DOMAIN rule.eventDescriptors |->
              checkEventDescriptor(rule.eventDescriptors[i])]
           \o << IF StateEvaluator_isValid(rule.stateEvaluator) THEN "RuleErrorNoError"
                 ELSE "RuleErrorInvalidStateEvaluatorValue",
                 checkTimeDescriptor(rule.timeDescriptor) >>
           \o [i \in DOMAIN rule.actions |-> checkAction(rule, rule.actions[i])]
           \o [i \in DOMAIN rule.exitActions |-> checkExitAction(rule.exitActions[i])])

\* RuleEngine::addRule
addRule_appendsFirst(e, rule, fromEdit) ==
    LET error == checkRule(e, rule)
    IN  IF error # "RuleErrorNoError"
        THEN Outcome(appendRule(e, rule), error, <<>>, FALSE)
        ELSE Outcome(saveRule(appendRule(e, rule), rule), error,
                     IF fromEdit THEN <<>> ELSE <<"ruleAdded">>, TRUE)

addRule(e, rule, fromEdit) ==
    LET error == checkRule(e, rule)
    IN  IF error # "RuleErrorNoError"
        THEN Outcome(e, error, <<>>, FALSE)
        ELSE Outcome(saveRule(appendRule(e, rule), rule), error,
                     IF fromEdit THEN <<>> ELSE <<"ruleAdded">>, TRUE)

\* RuleEngine::removeRule
removeRule_keepsActive(e, ruleId, fromEdit) ==
    IF ~\E i \in DOMAIN e.m_ruleIds : e.m_ruleIds[i] = ruleId
    THEN Outcome(e, "RuleErrorRuleNotFound", <<>>, FALSE)
    ELSE Outcome(Engine(Without(e.m_rules, ruleId), RemoveId(e.m_ruleIds, ruleId),
                        e.m_activeRules, Without(e.settings, ruleId)),
                 "RuleErrorNoError",
                 IF fromEdit THEN <<>> ELSE <<"ruleRemoved">>, FALSE)

removeRule(e, ruleId, fromEdit) ==
    IF ~\E i \in DOMAIN e.m_ruleIds : e.m_ruleIds[i] = ruleId
    THEN Outcome(e, "RuleErrorRuleNotFound", <<>>, FALSE)
    ELSE Outcome(Engine(Without(e.m_rules, ruleId), RemoveId(e.m_ruleIds, ruleId),
                        e.m_activeRules \ {ruleId}, Without(e.settings, ruleId)),
                 "RuleErrorNoError",
                 IF fromEdit THEN <<>> ELSE <<"ruleRemoved">>, FALSE)

\* RuleEngine::editRule; addRule is called with its default fromEdit = false
editRule(e, rule) ==
    IF rule.id = NullId THEN Outcome(e, "RuleErrorInvalidRuleId", <<>>, FALSE)
    ELSE LET oldRule == findRule(e, rule.id)
         IN  IF oldRule.id = NullId
             THEN Outcome(e, "RuleErrorRuleNotFound", <<>>, FALSE)
             ELSE LET removeResult == removeRule(e, oldRule.id, TRUE)
                      addResult == addRule(removeResult.e, rule, FALSE)
                  IN  IF removeResult.error # "RuleErrorNoError"
                      THEN Outcome(e, removeResult.error, <<>>, FALSE)
                      ELSE IF addResult.error # "RuleErrorNoError"
                      THEN Outcome(appendRule(addResult.e, oldRule), addResult.error,
                                   <<>>, FALSE)
                      ELSE Outcome(addResult.e, "RuleErrorNoError",
                                   addResult.emitted \o <<"ruleConfigurationChanged">>,
                                   TRUE)

\* RuleEngine::enableRule and RuleEngine::disableRule
setRuleEnabled_alwaysSaves(e, ruleId, enabled) ==
    IF ruleId \notin DOMAIN e.m_rules
    THEN Outcome(e, "RuleErrorRuleNotFound", <<>>, FALSE)
    ELSE LET rule == [e.m_rules[ruleId] EXCEPT !.enabled = enabled]
         IN  Outcome(saveRule([e EXCEPT !.m_rules[ruleId] = rule], rule),
                     "RuleErrorNoError", <<"ruleConfigurationChanged">>, TRUE)

setRuleEnabled(e, ruleId, enabled) ==
    IF ruleId \notin DOMAIN e.m_rules
    THEN Outcome(e, "RuleErrorRuleNotFound", <<>>, FALSE)
    ELSE IF e.m_rules[ruleId].enabled = enabled
    THEN Outcome(e, "RuleErrorNoError", <<>>, FALSE)
    ELSE LET rule == [e.m_rules[ruleId] EXCEPT !.enabled = enabled]
         IN  Outcome(saveRule([e EXCEPT !.m_rules[ruleId] = rule], rule),
                     "RuleErrorNoError", <<"ruleConfigurationChanged">>, TRUE)

enableRule(e, ruleId) == setRuleEnabled(e, ruleId, TRUE)

disableRule(e, ruleId) == setRuleEnabled(e, ruleId, FALSE)

\* the outcome of an execute call: the RuleError it returns, whether it called
\* GuhCore::executeRuleActions and the actions it handed over
Execution(error, dispatched, executed) ==
    [error |-> error, dispatched |-> dispatched, executed |-> executed]

\* RuleEngine::executeActions
executeActions_anyway(e, ruleId) ==
    IF ruleId \notin DOMAIN e.m_rules THEN Execution("RuleErrorRuleNotFound", FALSE, <<>>)
    ELSE Execution("RuleErrorNoError", TRUE, e.m_rules[ruleId].actions)

executeActions(e, ruleId) ==
    IF ruleId \notin DOMAIN e.m_rules THEN Execution("RuleErrorRuleNotFound", FALSE, <<>>)
    ELSE LET rule == e.m_rules[ruleId]
         IN  IF ~rule.executable THEN Execution("RuleErrorNotExecutable", FALSE, <<>>)
             ELSE IF \E i \in DOMAIN rule.actions : isEventBased(rule.actions[i])
             THEN Execution("RuleErrorContainsEventBasesAction", FALSE, <<>>)
             ELSE Execution("RuleErrorNoError", TRUE, rule.actions)

\* RuleEngine::executeExitActions
executeExitActions(e, ruleId) ==
    IF ruleId \notin DOMAIN e.m_rules THEN Execution("RuleErrorRuleNotFound", FALSE, <<>>)
    ELSE LET rule == e.m_rules[ruleId]
         IN  IF ~rule.executable THEN Execution("RuleErrorNotExecutable", FALSE, <<>>)
             ELSE IF rule.exitActions = <<>>
             THEN Execution("RuleErrorNoExitActions", FALSE, <<>>)
             ELSE Execution("RuleErrorNoError", TRUE, rule.exitActions)

\* RuleEngine::removeDeviceFromRule
removeDeviceFromRule(e, id, deviceId) ==
    IF id \notin DOMAIN e.m_rules THEN Outcome(e, "RuleErrorNoError", <<>>, FALSE)
    ELSE LET rule == e.m_rules[id]
             newRule ==
               [NoRule EXCEPT
                  !.id = id,
                  !.name = rule.name,
                  !.eventDescriptors =
                     SelectSeq(rule.eventDescriptors, LAMBDA d : d.deviceId # deviceId),
                  !.stateEvaluator = StateEvaluator_removeDevice(rule.stateEvaluator, deviceId),
                  !.actions = SelectSeq(rule.actions, LAMBDA a : a.deviceId # deviceId),
                  !.exitActions = SelectSeq(rule.exitActions, LAMBDA a : a.deviceId # deviceId)]
         IN  Outcome(saveRule([e EXCEPT !.m_rules[id] = newRule,
                                        !.settings = Without(@, id)], newRule),
                     "RuleErrorNoError", <<"ruleConfigurationChanged">>, TRUE)

trackActive_everyTime(e, rules, rule) ==
    LET r == [rule EXCEPT !.active = timeActive(rule) /\ rule.statesActive]
    IN  IF r.active \/ rule.id \in e.m_activeRules
        THEN [e |-> [e EXCEPT !.m_rules[rule.id] = r,
                              !.m_activeRules =
                                 IF r.active THEN @ \cup {rule.id} ELSE @ \ {rule.id}],
              rules |-> Append(rules, r)]
        ELSE [e |-> e, rules |-> rules]

\* the transition evaluateEvent and evaluateTime make for a rule that is
\* tracked in m_activeRules: [e, rules] after the rule was looked at
trackActive(e, rules, rule) ==
    IF timeActive(rule) /\ rule.statesActive
    THEN IF rule.id \notin e.m_activeRules
         THEN LET r == [rule EXCEPT !.active = TRUE]
              IN  [e |-> [e EXCEPT !.m_rules[rule.id] = r,
                                   !.m_activeRules = @ \cup {rule.id}],
                   rules |-> Append(rules, r)]
         ELSE [e |-> e, rules |-> rules]
    ELSE IF rule.id \in e.m_activeRules
         THEN LET r == [rule EXCEPT !.active = FALSE]
              IN  [e |-> [e EXCEPT !.m_rules[rule.id] = r,
                                   !.m_activeRules = @ \ {rule.id}],
                   rules |-> Append(rules, r)]
         ELSE [e |-> e, rules |-> rules]

\* variant of the loop of evaluateEvent that evaluates disabled rules too
RECURSIVE evaluateEvent_from_disabledToo(_, _, _, _, _)
evaluateEvent_from_disabledToo(ids, event, state, e, rules) ==
    IF ids = <<>> THEN [e |-> e, rules |-> rules]
    ELSE LET stored == findRule(e, Head(ids))
             rule == IF containsState(stored.stateEvaluator, event)
                     THEN [stored EXCEPT !.statesActive =
                             StateEvaluator_evaluate(stored.stateEvaluator, state)]
                     ELSE stored
             e1 == [e EXCEPT !.m_rules[rule.id] = rule]
             next == IF rule.eventDescriptors = <<>> THEN trackActive(e1, rules, rule)
                     ELSE IF containsEvent(rule, event) /\ rule.statesActive
                             /\ timeActive(rule)
                     THEN [e |-> e1, rules |-> Append(rules, rule)]
                     ELSE [e |-> e1, rules |-> rules]
         IN  evaluateEvent_from_disabledToo(Tail(ids), event, state, next.e, next.rules)

\* RuleEngine::evaluateEvent: the loop over ruleIds() from ids on; state is
\* the value of the device's state when the event is evaluated
RECURSIVE evaluateEvent_from(_, _, _, _, _)
evaluateEvent_from(ids, event, state, e, rules) ==
    IF ids = <<>> THEN [e |-> e, rules |-> rules]
    ELSE LET stored == findRule(e, Head(ids))
             rule == IF containsState(stored.stateEvaluator, event)
                     THEN [stored EXCEPT !.statesActive =
                             StateEvaluator_evaluate(stored.stateEvaluator, state)]
                     ELSE stored
             e1 == [e EXCEPT !.m_rules[rule.id] = rule]
             next == IF ~stored.enabled THEN [e |-> e, rules |-> rules]
                     ELSE IF rule.eventDescriptors = <<>> THEN trackActive(e1, rules, rule)
                     ELSE IF containsEvent(rule, event) /\ rule.statesActive
                             /\ timeActive(rule)
                     THEN [e |-> e1, rules |-> Append(rules, rule)]
                     ELSE [e |-> e1, rules |-> rules]
         IN  evaluateEvent_from(Tail(ids), event, state, next.e, next.rules)

evaluateEvent(e, event, state) == evaluateEvent_from(e.m_ruleIds, event, state, e, <<>>)

\* RuleEngine::evaluateTime: the loop over m_rules.values() from ids on
RECURSIVE evaluateTime_from(_, _, _, _, _)
evaluateTime_from(ids, lastEvaluationTime, dateTime, e, rules) ==
    IF ids = <<>> THEN [e |-> e, rules |-> rules]
    ELSE LET stored == findRule(e, Head(ids))
             td == stored.timeDescriptor
             valid == TimeDescriptor_evaluate(td, lastEvaluationTime, dateTime)
             rule == IF td.calendarItems # <<>>
                     THEN [stored EXCEPT !.timeActive = valid] ELSE stored
             e1 == [e EXCEPT !.m_rules[rule.id] = rule]
             tracked == IF td.calendarItems # <<>> /\ td.timeEventItems = <<>>
                        THEN trackActive(e1, rules, rule)
                        ELSE [e |-> e1, rules |-> rules]
             fired == IF td.timeEventItems # <<>> /\ valid /\ rule.statesActive
                         /\ timeActive(rule)
                      THEN [e |-> tracked.e, rules |-> Append(tracked.rules, rule)]
                      ELSE tracked
             next == IF ~stored.enabled \/ TimeDescriptor_isEmpty(td)
                     THEN [e |-> e, rules |-> rules] ELSE fired
         IN  evaluateTime_from(Tail(ids), lastEvaluationTime, dateTime, next.e, next.rules)

\* the orders m_rules.values() may list the rules in: m_rules is a hash
\* keyed by the rule id, whose order is unrelated to the insertion order
valuesOrders(e) ==
    {ids \in [1 .. Cardinality(DOMAIN e.m_rules) -> DOMAIN e.m_rules] :
       \A i, j \in DOMAIN ids : i # j => ids[i] # ids[j]}

\* evaluateTime with the order values() answers and the last evaluation time
evaluateTime(e, lastEvaluationTime, dateTime, order) ==
    evaluateTime_from(order,
                      IF lastEvaluationTime = NoTime THEN dateTime - 1 ELSE lastEvaluationTime,
                      dateTime, e, <<>>)

\* ------------------------------------------------------------ rule actions
\* the record of a rule engine call: its arguments, the RuleError or the rule
\* list it returned, the signals it emitted and whether it called saveRule
RuleCalled(op, id, rule, error, emitted, saved, rules) ==
    [op |-> op, id |-> id, rule |-> rule, error |-> error, emitted |-> emitted,
     saved |-> saved, rules |-> rules, event |-> Event("", "", NoValue),
     dispatched |-> FALSE, executed |-> <<>>, wasActive |-> FALSE]

\* the members of the engine after a call
Becomes(e) ==
    /\ m_rules' = e.m_rules
    /\ m_ruleIds' = e.m_ruleIds
    /\ m_activeRules' = e.m_activeRules
    /\ settings' = e.settings

\* RuleEngine::addRule called by the rules handler
AddRule(rule) ==
    LET r == addRule(engine, rule, FALSE)
    IN  /\ Becomes(r.e)
        /\ ruleCall' = RuleCalled("addRule", rule.id, rule, r.error, r.emitted, r.saved, <<>>)
        /\ UNCHANGED <<descriptorVars, asyncVars, coreVars, m_lastEvaluationTime, deviceState, clock>>

\* RuleEngine::editRule
EditRule(rule) ==
    LET r == editRule(engine, rule)
    IN  /\ Becomes(r.e)
        /\ ruleCall' = [RuleCalled("editRule", rule.id, rule, r.error, r.emitted, r.saved,
                                   <<>>)
                           EXCEPT !.wasActive = rule.id \in m_activeRules]
        /\ UNCHANGED <<descriptorVars, asyncVars, coreVars, m_lastEvaluationTime, deviceState, clock>>

\* RuleEngine::removeRule
RemoveRule(ruleId) ==
    LET r == removeRule(engine, ruleId, FALSE)
    IN  /\ Becomes(r.e)
        /\ ruleCall' = RuleCalled("removeRule", ruleId, NoRule, r.error, r.emitted, r.saved, <<>>)
        /\ UNCHANGED <<descriptorVars, asyncVars, coreVars, m_lastEvaluationTime, deviceState, clock>>

\* RuleEngine::enableRule
EnableRule(ruleId) ==
    LET r == enableRule(engine, ruleId)
    IN  /\ Becomes(r.e)
        /\ ruleCall' = RuleCalled("enableRule", ruleId, NoRule, r.error, r.emitted, r.saved, <<>>)
        /\ UNCHANGED <<descriptorVars, asyncVars, coreVars, m_lastEvaluationTime, deviceState, clock>>

\* RuleEngine::disableRule
DisableRule(ruleId) ==
    LET r == disableRule(engine, ruleId)
    IN  /\ Becomes(r.e)
        /\ ruleCall' = RuleCalled("disableRule", ruleId, NoRule, r.error, r.emitted, r.saved, <<>>)
        /\ UNCHANGED <<descriptorVars, asyncVars, coreVars, m_lastEvaluationTime, deviceState, clock>>

\* RuleEngine::removeDeviceFromRule
RemoveDeviceFromRule(id, deviceId) ==
    LET r == removeDeviceFromRule(engine, id, deviceId)
    IN  /\ Becomes(r.e)
        /\ ruleCall' = RuleCalled("removeDeviceFromRule", id, NoRule, r.error, r.emitted,
                                  r.saved, <<>>)
        /\ UNCHANGED <<descriptorVars, asyncVars, coreVars, m_lastEvaluationTime, deviceState, clock>>

\* RuleEngine::executeActions
ExecuteActions(ruleId) ==
    LET r == executeActions(engine, ruleId)
    IN  /\ ruleCall' = [RuleCalled("executeActions", ruleId, NoRule, r.error, <<>>, FALSE, <<>>)
                          EXCEPT !.dispatched = r.dispatched, !.executed = r.executed]
        /\ UNCHANGED <<descriptorVars, asyncVars, coreVars, m_rules, m_ruleIds, m_activeRules, settings,
                       m_lastEvaluationTime, deviceState, clock>>

\* RuleEngine::executeExitActions
ExecuteExitActions(ruleId) ==
    LET r == executeExitActions(engine, ruleId)
    IN  /\ ruleCall' = [RuleCalled("executeExitActions", ruleId, NoRule, r.error, <<>>, FALSE,
                                    <<>>)
                          EXCEPT !.dispatched = r.dispatched, !.executed = r.executed]
        /\ UNCHANGED <<descriptorVars, asyncVars, coreVars, m_rules, m_ruleIds, m_activeRules, settings,
                       m_lastEvaluationTime, deviceState, clock>>

\* RuleEngine::evaluateEvent for an event of the device; the event of type S1
\* announces that the state S1 changed to the value it carries
EvaluateEvent(event) ==
    LET state == IF event.eventTypeId = "S1" THEN event.paramValue = "true" ELSE deviceState
        r == evaluateEvent(engine, event, state)
    IN  /\ event.eventTypeId = "S1" => state # deviceState
        /\ deviceState' = state
        /\ Becomes(r.e)
        /\ ruleCall' = [RuleCalled("evaluateEvent", NullId, NoRule, "RuleErrorNoError",
                                   <<>>, FALSE, r.rules) EXCEPT !.event = event]
        /\ UNCHANGED <<descriptorVars, asyncVars, coreVars, m_lastEvaluationTime, clock>>

\* RuleEngine::evaluateTime at a tick of the time manager
EvaluateTime(dateTime) ==
    \E order \in valuesOrders(engine) :
       LET r == evaluateTime(engine, m_lastEvaluationTime, dateTime, order)
       IN  /\ Becomes(r.e)
           /\ m_lastEvaluationTime' = dateTime
           /\ clock' = dateTime
           /\ ruleCall' = RuleCalled("evaluateTime", NullId, NoRule, "RuleErrorNoError",
                                     <<>>, FALSE, r.rules)
           /\ UNCHANGED <<descriptorVars, asyncVars, coreVars, deviceState>>

\* ---------------------------------------------------------------- inputs
SwitchOn  == RuleAction("A1", "d1", "on", "")
SwitchOff == RuleAction("A1", "d1", "off", "")

S1IsOn == StateEvaluator(StateDescriptor("S1", "d1", TRUE), <<>>)

\* a window that opens at 01:00:30 every day, given by its startTime only
WorkHours == CalendarItem(NoTime, QTime(1, 0, 30), 1, NoRepeating)

\* a daily instant at 01:00
Alarm == TimeEventItem(NoTime, QTime(1, 0, 0), NoRepeating)

Pressed == EventDescriptor("E1", "d1", NoValue)

\* rules addRule accepts
StateRule(id) ==
    Rule(id, "state", TRUE, NoTimeDescriptor, S1IsOn, <<>>, <<SwitchOn>>, <<SwitchOff>>)

CalendarRule(id) ==
    Rule(id, "calendar", TRUE, TimeDescriptor(<<WorkHours>>, <<>>), NoStateEvaluator,
         <<>>, <<SwitchOn>>, <<SwitchOff>>)

EventRule(id) ==
    Rule(id, "event", TRUE, NoTimeDescriptor, S1IsOn, <<Pressed>>, <<SwitchOn>>, <<>>)

EventCalendarRule(id) ==
    Rule(id, "eventCalendar", TRUE, TimeDescriptor(<<WorkHours>>, <<>>), NoStateEvaluator,
         <<Pressed>>, <<SwitchOn>>, <<>>)

TimeEventRule(id) ==
    Rule(id, "timeEvent", TRUE, TimeDescriptor(<<>>, <<Alarm>>), NoStateEvaluator,
         <<>>, <<SwitchOn>>, <<>>)

\* rules addRule refuses, one for each check
InconsistentRules(id) ==
    { [EventRule(id) EXCEPT !.exitActions = <<SwitchOff>>],
      [TimeEventRule(id) EXCEPT !.exitActions = <<SwitchOff>>],
      [StateRule(id) EXCEPT !.actions = <<>>],
      [StateRule(id) EXCEPT !.actions = <<>>, !.exitActions = <<>>] }

InvalidRules(id) ==
    { [EventRule(id) EXCEPT !.eventDescriptors = <<EventDescriptor("E1", "dX", NoValue)>>],
      [EventRule(id) EXCEPT !.eventDescriptors = <<EventDescriptor("EX", "d1", NoValue)>>],
      [StateRule(id) EXCEPT !.stateEvaluator =
         StateEvaluator(StateDescriptor("SX", "d1", TRUE), <<>>)],
      [CalendarRule(id) EXCEPT !.timeDescriptor =
         TimeDescriptor(<<[WorkHours EXCEPT !.duration = 0]>>, <<>>)],
      [CalendarRule(id) EXCEPT !.timeDescriptor =
         TimeDescriptor(<<[WorkHours EXCEPT !.repeatingOption =
                             RepeatingOption("Weekly", <<>>, <<>>)]>>, <<>>)],
      [TimeEventRule(id) EXCEPT !.timeDescriptor =
         TimeDescriptor(<<>>, <<[Alarm EXCEPT !.time = InvalidQTime]>>)],
      [StateRule(id) EXCEPT !.actions = <<RuleAction("A1", "dX", "on", "")>>],
      [StateRule(id) EXCEPT !.actions = <<RuleAction("AX", "d1", "on", "")>>],
      [StateRule(id) EXCEPT !.actions = <<RuleAction("A1", "d1", "bogus", "")>>],
      [StateRule(id) EXCEPT !.actions = <<RuleAction("A1", "d1", NoValue, "E1")>>],
      [EventRule(id) EXCEPT !.actions = <<RuleAction("A1", "d1", NoValue, "S1")>>],
      [EventRule(id) EXCEPT !.eventDescriptors = <<EventDescriptor("S1", "d1", NoValue)>>,
                            !.actions = <<RuleAction("A1", "d1", NoValue, "S1")>>],
      [StateRule(id) EXCEPT !.exitActions = <<RuleAction("A1", "d1", "bogus", "")>>] }

Events ==
    { Event("S1", "d1", "true"), Event("S1", "d1", "false"), Event("E1", "d1", "p1") }

\* ------------------------------------------------------------ specification
\* Adding rules: every rule addRule accepts or refuses is offered for r1, a
\* state rule for r2, while rules are removed, the device's state changes and
\* the clock ticks.
AddInputs ==
    {StateRule("r1"), CalendarRule("r1"), EventRule("r1"), StateRule("r2"),
     StateRule(NullId), [StateRule(NullId) EXCEPT !.actions = <<>>]}
    \cup InconsistentRules("r1") \cup InvalidRules("r1")

StateChanges == {Event("S1", "d1", "true"), Event("S1", "d1", "false")}

NextAdd ==
    \/ \E rule \in AddInputs : AddRule(rule)
    \/ \E ruleId \in RuleIds : RemoveRule(ruleId)
    \/ \E event \in StateChanges : EvaluateEvent(event)
    \/ \E dateTime \in Moments : EvaluateTime(dateTime)

SpecAdd == Init /\ [][NextAdd]_vars

\* Configuration of the rules: adding, editing, removing, enabling and
\* disabling rules and removing a device from them, while the device's state
\* changes.
ConfigInputs == {StateRule("r1"), StateRule("r2")}

EditInputs ==
    {StateRule("r1"), [StateRule("r1") EXCEPT !.name = "edited", !.exitActions = <<>>],
     StateRule(NullId),
     [StateRule("r1") EXCEPT !.actions = <<>>],
     [StateRule("r2") EXCEPT !.actions = <<RuleAction("A1", "dX", "on", "")>>]}

NextRules ==
    \/ \E rule \in ConfigInputs : AddRule(rule)
    \/ \E rule \in EditInputs : EditRule(rule)
    \/ \E ruleId \in RuleIds : RemoveRule(ruleId)
    \/ \E ruleId \in RuleIds : EnableRule(ruleId)
    \/ \E ruleId \in RuleIds : DisableRule(ruleId)
    \/ RemoveDeviceFromRule("r1", "d1")
    \/ \E event \in StateChanges : EvaluateEvent(event)

SpecRules == Init /\ [][NextRules]_vars

\* Evaluation of the rules: rules of every kind are added, enabled and
\* disabled while events arrive and the clock ticks.
EvalInputs ==
    {StateRule("r1"), CalendarRule("r1"), EventRule("r1"), EventCalendarRule("r1"),
     TimeEventRule("r1"), StateRule("r2"), CalendarRule("r2"), TimeEventRule("r2")}

NextEval ==
    \/ \E rule \in EvalInputs : AddRule(rule)
    \/ \E ruleId \in RuleIds : EnableRule(ruleId)
    \/ \E ruleId \in RuleIds : DisableRule(ruleId)
    \/ \E event \in Events : EvaluateEvent(event)
    \/ \E dateTime \in Moments : EvaluateTime(dateTime)

SpecEval == Init /\ [][NextEval]_vars

\* Calendar rules: rules with calendar items and no time event items, with
\* and without a state evaluator and event descriptors, are added, enabled and
\* disabled while the state of the device changes and the clock ticks.
CalendarStateRule(id) ==
    Rule(id, "calendarState", TRUE, TimeDescriptor(<<WorkHours>>, <<>>), S1IsOn,
         <<>>, <<SwitchOn>>, <<SwitchOff>>)

CalendarInputs ==
    {CalendarStateRule("r1"), CalendarRule("r1"), EventCalendarRule("r1"),
     CalendarStateRule("r2"), TimeEventRule("r2")}

\* edits of r1: another name, or a state rule without calendar items
CalendarEdits ==
    {[CalendarStateRule("r1") EXCEPT !.name = "edited"],
     [CalendarRule("r1") EXCEPT !.name = "edited"],
     [StateRule("r1") EXCEPT !.name = "edited"]}

NextCalendar ==
    \/ \E rule \in CalendarInputs : AddRule(rule)
    \/ \E ruleId \in RuleIds : EnableRule(ruleId)
    \/ \E ruleId \in RuleIds : DisableRule(ruleId)
    \/ \E event \in Events : EvaluateEvent(event)
    \/ \E dateTime \in Moments : EvaluateTime(dateTime)

SpecCalendar == Init /\ [][NextCalendar]_vars

\* Calendar rules that are edited between the evaluations
NextCalendarEdit ==
    \/ \E rule \in CalendarInputs : AddRule(rule)
    \/ \E rule \in CalendarEdits : EditRule(rule)
    \/ \E event \in Events : EvaluateEvent(event)
    \/ \E dateTime \in Moments : EvaluateTime(dateTime)

SpecCalendarEdit == Init /\ [][NextCalendarEdit]_vars

\* settings.childGroups(): the rule ids of the store in the order of the keys
childGroups(store) == SelectSeq(<<"r1", "r2">>, LAMBDA id : id \in DOMAIN store)

\* RuleEngine::RuleEngine: the loop that loads the groups from ids on
RECURSIVE loadRules_from(_, _)
loadRules_from(ids, e) ==
    IF ids = <<>> THEN e
    ELSE loadRules_from(Tail(ids), appendRule(e, loadRule(Head(ids), e.settings[Head(ids)])))

\* RuleEngine::RuleEngine: the server starts again on the settings it left
LoadRules ==
    /\ Becomes(loadRules_from(childGroups(settings), Engine(EmptyMap, <<>>, {}, settings)))
    /\ m_lastEvaluationTime' = NoTime
    /\ ruleCall' = RuleCalled("RuleEngine", NullId, NoRule, "RuleErrorNoError", <<>>, FALSE, <<>>)
    /\ UNCHANGED <<descriptorVars, asyncVars, coreVars, deviceState, clock>>

\* a window given by its absolute start, repeated weekly
Holiday == CalendarItem(1, InvalidQTime, 2, RepeatingOption("Weekly", <<6, 7>>, <<>>))

\* an instant given by its absolute date, repeated monthly
Payday == TimeEventItem(2, InvalidQTime, RepeatingOption("Monthly", <<>>, <<1>>))

StoreInputs(id) ==
    { StateRule(id), CalendarRule(id), EventRule(id), EventCalendarRule(id),
      TimeEventRule(id),
      [CalendarRule(id) EXCEPT !.timeDescriptor = TimeDescriptor(<<Holiday>>, <<>>)],
      [CalendarRule(id) EXCEPT !.timeDescriptor = TimeDescriptor(<<Holiday, WorkHours>>, <<>>),
                               !.enabled = FALSE],
      [TimeEventRule(id) EXCEPT !.timeDescriptor = TimeDescriptor(<<>>, <<Payday>>)],
      [EventRule(id) EXCEPT !.eventDescriptors = <<EventDescriptor("E1", "d1", "p1")>>,
                            !.actions = <<RuleAction("A1", "d1", NoValue, "E1"), SwitchOff>>,
                            !.stateEvaluator = StateEvaluator(InvalidStateDescriptor,
                                                              <<S1IsOn>>)] }

\* The rule store: rules of every content are added, the server restarts and
\* loads them, and enabling and disabling saves the loaded rules again.
NextStore ==
    \/ \E id \in RuleIds : \E rule \in StoreInputs(id) : AddRule(rule)
    \/ \E ruleId \in RuleIds : RemoveRule(ruleId)
    \/ \E ruleId \in RuleIds : EnableRule(ruleId)
    \/ \E ruleId \in RuleIds : DisableRule(ruleId)
    \/ LoadRules

SpecStore == Init /\ [][NextStore]_vars

\* a rule whose first action takes its param from the event that triggers it
EventBasedRule(id) ==
    [EventRule(id) EXCEPT !.eventDescriptors = <<EventDescriptor("E1", "d1", "p1")>>,
                          !.actions = <<RuleAction("A1", "d1", NoValue, "E1"), SwitchOff>>]

ExecInputs(id) ==
    { StateRule(id), [StateRule(id) EXCEPT !.executable = FALSE],
      EventRule(id), EventBasedRule(id), [EventBasedRule(id) EXCEPT !.executable = FALSE] }

\* Execution on request: rules that are executable or not, with and without
\* exit actions and event based actions, are added, disabled, stripped of
\* their device and removed while their actions and exit actions are
\* requested.
NextExec ==
    \/ \E id \in RuleIds : \E rule \in ExecInputs(id) : AddRule(rule)
    \/ \E ruleId \in RuleIds : RemoveRule(ruleId)
    \/ \E ruleId \in RuleIds : DisableRule(ruleId)
    \/ \E ruleId \in RuleIds : RemoveDeviceFromRule(ruleId, "d1")
    \/ \E ruleId \in RuleIds : ExecuteActions(ruleId)
    \/ \E ruleId \in RuleIds : ExecuteExitActions(ruleId)

SpecExec == Init /\ [][NextExec]_vars

\* ============================================================ async replies
UserIds    == {"u1", "u2"}
CommandIds == {1, 2}

\* the members of JsonRPCServer and the JsonReply objects an async step works on
Async(rs, asyncReplies, pairingRequests, responses) ==
    [replies |-> rs, m_asyncReplies |-> asyncReplies,
     m_pairingRequests |-> pairingRequests, sent |-> responses]

async == Async(replies, m_asyncReplies, m_pairingRequests, sent)

\* JsonRPCServer::sendResponse and sendErrorResponse for a reply; data names
\* the pairing transaction whose status and message the response carries
sendResponse(reply, data) ==
    [clientId |-> reply.clientId, commandId |-> reply.commandId, status |-> "success",
     error |-> "", data |-> data]

sendErrorResponse(reply, error) ==
    [clientId |-> reply.clientId, commandId |-> reply.commandId, status |-> "error",
     error |-> error, data |-> 0]

\* JsonRPCServer::asyncReplyFinished for the reply that emitted finished
asyncReplyFinished(a, reply) ==
    IF reply \notin DOMAIN a.m_asyncReplies THEN a
    ELSE [a EXCEPT !.m_asyncReplies = Without(@, reply),
                   !.sent[reply] =
                      Append(@, IF ~a.replies[reply].timedOut
                                THEN sendResponse(a.replies[reply], a.replies[reply].data)
                                ELSE sendErrorResponse(a.replies[reply], "Command timed out"))]

\* JsonReply::finished: the slots in the order they were connected, the lambda
\* of SetupRemoteAccess and then asyncReplyFinished
finished(a, reply) ==
    asyncReplyFinished([a EXCEPT !.m_pairingRequests = Without(@, a.replies[reply].userId)],
                       reply)

\* JsonRPCServer::pairingFinished
pairingFinished(a, cognitoUserId, status) ==
    IF cognitoUserId \notin DOMAIN a.m_pairingRequests THEN a
    ELSE LET reply == a.m_pairingRequests[cognitoUserId]
         IN  finished([a EXCEPT !.m_pairingRequests = Without(@, cognitoUserId),
                                !.replies[reply].data = status],
                      reply)

\* JsonReply::timeout
timeout(a, reply) == finished([a EXCEPT !.replies[reply].timedOut = TRUE], reply)

\* the members after an async step
AsyncBecomes(a) ==
    /\ replies' = a.replies
    /\ m_asyncReplies' = a.m_asyncReplies
    /\ m_pairingRequests' = a.m_pairingRequests
    /\ sent' = a.sent

\* the record of an async step: the reply it created or finished (0 if none),
\* the user id and the pairing transaction it is about
AsyncCalled(op, reply, userId, transaction) ==
    [op |-> op, reply |-> reply, userId |-> userId, transaction |-> transaction]

\* processData for a JSONRPC.SetupRemoteAccess request that passes the checks:
\* the handler, AWSConnector::pairDevice and the async branch
SetupRemoteAccess(clientId, commandId, userId) ==
    /\ clientId \in DOMAIN m_clientTransports
    /\ gate(m_clientTransports[clientId], "JSONRPC", "SetupRemoteAccess", EmptyToken, TRUE) = ""
    /\ Cardinality(DOMAIN replies) < MaxAsync
    /\ LET reply == Cardinality(DOMAIN replies) + 1
       IN  /\ aws_pairingRequests' = With(aws_pairingRequests, reply, userId)
           /\ replies' = With(replies, reply,
                              [clientId |-> clientId, commandId |-> commandId,
                               userId |-> userId, timedOut |-> FALSE, data |-> 0])
           /\ m_pairingRequests' = With(m_pairingRequests, userId, reply)
           /\ m_asyncReplies' = With(m_asyncReplies, reply, m_clientTransports[clientId])
           /\ sent' = With(sent, reply, <<>>)
           /\ asyncCall' = AsyncCalled("SetupRemoteAccess", reply, userId, reply)
    /\ UNCHANGED <<descriptorVars, coreVars, ruleVars>>

\* the cloud answers the pairing transaction id: AWSConnector's handler of
\* pair/response, devicePaired, pairingReply and JsonRPCServer::pairingFinished
PairResponse(id) ==
    /\ id \in DOMAIN aws_pairingRequests
    /\ aws_pairingRequests' = Without(aws_pairingRequests, id)
    /\ AsyncBecomes(pairingFinished(async, aws_pairingRequests[id], id))
    /\ asyncCall' = AsyncCalled("pairingFinished",
                                IF aws_pairingRequests[id] \in DOMAIN m_pairingRequests
                                THEN m_pairingRequests[aws_pairingRequests[id]] ELSE 0,
                                aws_pairingRequests[id], id)
    /\ UNCHANGED <<descriptorVars, coreVars, ruleVars>>

\* the timer of a waiting reply expires; the replies wait equally long, so the
\* one that was started first expires first
Timeout(reply) ==
    /\ reply \in DOMAIN m_asyncReplies
    /\ \A other \in DOMAIN m_asyncReplies : reply <= other
    /\ AsyncBecomes(timeout(async, reply))
    /\ asyncCall' = AsyncCalled("timeout", reply, replies[reply].userId, 0)
    /\ UNCHANGED <<descriptorVars, coreVars, ruleVars, aws_pairingRequests>>

\* Async replies: clients connect and set up remote access for one of two
\* users while the cloud answers the pairings in any order and the replies'
\* timers expire.
NextAsync ==
    \/ \E clientId \in Clients : \E interface \in Interfaces :
          clientConnected(clientId, interface)
    \/ \E clientId \in Clients : \E commandId \in CommandIds : \E userId \in UserIds :
          SetupRemoteAccess(clientId, commandId, userId)
    \/ \E id \in 1 .. MaxAsync : PairResponse(id)
    \/ \E reply \in 1 .. MaxAsync : Timeout(reply)

SpecAsync == Init /\ [][NextAsync]_vars

\* The protocol of processData: one client sends messages of every form, to
\* unknown namespaces and methods, with and without a token and with params
\* that do not fit, and sets up remote access once, while a user is created,
\* the button is pressed, the cloud answers and the reply's timer expires.
ProtocolMessages ==
    Malformed
    \cup Plain({<<"JSONRPC", "Hello">>, <<"JSONRPC", "Tokens">>, <<"Rules", "GetRules">>,
               <<"Rules", "Hello">>, <<"Foo", "Bar">>}, {EmptyToken, 1})
    \cup InvalidParams
    \cup {[msg EXCEPT !.token = 1] : msg \in InvalidParams}
    \cup RequestPushButtonAuthRequests({EmptyToken}, {"phoneA"})
    \cup {Request("JSONRPC", "CreateUser", EmptyToken,
                  [NoArgs EXCEPT !.username = "Alice@guh.io", !.password = GoodPassword])}

NextProtocol ==
    \/ \E interface \in Interfaces : clientConnected("c1", interface)
    \/ clientDisconnected("c1")
    \/ \E msg \in ProtocolMessages :
         \E queryOk \in QueryOutcomes(msg), execOk \in ExecOutcomes(msg) :
           processData("c1", msg, queryOk, execOk)
    \/ PushButtonPressed(TRUE)
    \/ \E commandId \in CommandIds :
         replies = EmptyMap /\ SetupRemoteAccess("c1", commandId, "u1")
    \/ \E id \in 1 .. MaxAsync : PairResponse(id)
    \/ \E reply \in 1 .. MaxAsync : Timeout(reply)

SpecProtocol == Init /\ [][NextProtocol]_vars

\* ============================================================ EventDescriptor

ParamTypeIds == {"p1", "p2"}
ParamValues  == {1, 2}

\* ParamDescriptor(paramTypeId, value); ParamDescriptor(QString()) is the
\* invalid one paramDescriptor() returns when nothing is found
ParamDescriptor(paramTypeId, paramValue) == [paramTypeId |-> paramTypeId, value |-> paramValue]
InvalidParamDescriptor == [paramTypeId |-> "", value |-> 0]
isValid(paramDescriptor) == paramDescriptor.paramTypeId # ""

\* lists of at most MaxParams param descriptors, no param type twice
ParamDescriptorLists ==
    UNION {{l \in [1 .. n -> {ParamDescriptor(p, v) : p \in ParamTypeIds, v \in ParamValues}] :
              \A i, j \in 1 .. n : i # j => l[i].paramTypeId # l[j].paramTypeId} :
           n \in 0 .. MaxParams}

\* EventDescriptor(eventTypeId, deviceId, paramDescriptors)
DeviceDescriptor(eventTypeId, deviceId, paramDescriptors) ==
    [eventTypeId |-> eventTypeId, deviceId |-> deviceId, interface |-> "",
     interfaceEvent |-> "", paramDescriptors |-> paramDescriptors]

\* EventDescriptor(interface, interfaceEvent, paramDescriptors)
InterfaceDescriptor(interface, interfaceEvent, paramDescriptors) ==
    [eventTypeId |-> "", deviceId |-> "", interface |-> interface,
     interfaceEvent |-> interfaceEvent, paramDescriptors |-> paramDescriptors]

\* the descriptors that are compared
EventDescriptors ==
    {DeviceDescriptor(ids[1], ids[2], l) :
        ids \in {<<"E1", "d1">>, <<"E1", "d2">>, <<"E2", "d1">>}, l \in ParamDescriptorLists}
    \cup {InterfaceDescriptor(ids[1], ids[2], l) :
        ids \in {<<"light", "on">>, <<"light", "off">>, <<"sensor", "on">>},
        l \in ParamDescriptorLists}

\* EventDescriptor::paramDescriptor: the first param descriptor of the type
RECURSIVE paramDescriptor(_, _)
paramDescriptor(paramDescriptors, paramTypeId) ==
    IF paramDescriptors = <<>> THEN InvalidParamDescriptor
    ELSE IF Head(paramDescriptors).paramTypeId = paramTypeId THEN Head(paramDescriptors)
    ELSE paramDescriptor(Tail(paramDescriptors), paramTypeId)

\* EventDescriptor::operator==(EventDescriptor)
EventDescriptor_equals(this, other) ==
    LET paramsMatch ==
            \A i \in DOMAIN other.paramDescriptors :
                LET found == paramDescriptor(this.paramDescriptors,
                                             other.paramDescriptors[i].paramTypeId)
                IN  isValid(found) /\ found.value = other.paramDescriptors[i].value
    IN  /\ this.eventTypeId = other.eventTypeId
        /\ this.deviceId = other.deviceId
        /\ paramsMatch

\* two descriptors are constructed
InitDescriptors ==
    /\ InitServer
    /\ thisDescriptor \in EventDescriptors
    /\ otherDescriptor \in EventDescriptors
    /\ equality = [op |-> "init"]

\* thisDescriptor == otherDescriptor is evaluated, and the comparison the other
\* way round
Equals ==
    /\ equality' = [op |-> "operator==",
                    result |-> EventDescriptor_equals(thisDescriptor, otherDescriptor),
                    converse |-> EventDescriptor_equals(otherDescriptor, thisDescriptor)]
    /\ UNCHANGED <<asyncVars, coreVars, ruleVars, thisDescriptor, otherDescriptor>>

NextDescriptors == Equals

SpecDescriptors == InitDescriptors /\ [][NextDescriptors]_vars

\* ================================================================= claims

\* the request of the last step came in on an interface that requires
\* authentication, as a well-formed request (JSON, integer id, Namespace.Method)
GatedRequest ==
    /\ call'.op = "processData"
    /\ call'.form = "ok"
    /\ authenticationEnabled(m_clientTransports[call'.client])

ExemptWithUser(c) ==
    c.namespace = "JSONRPC"
    /\ c.method \in {"Introspect", "Hello", "Authenticate", "RequestPushButtonAuth"}

ExemptNoUser(c) ==
    c.namespace = "JSONRPC"
    /\ c.method \in {"Introspect", "Hello", "CreateUser", "RequestPushButtonAuth"}

\* C1: on an interface that requires authentication, with at least one user in
\* the store when the request arrives, a handler is invoked only for
\* JSONRPC.Introspect, Hello, Authenticate, RequestPushButtonAuth or for a
\* request whose token verifyToken accepts at that moment; every other request
\* is answered "unauthorized" and invokes no handler.
C1_GateWithUser ==
    [][(GatedRequest /\ users # {}) =>
          /\ call'.handler # "" => (ExemptWithUser(call') \/ call'.verified)
          /\ ~(ExemptWithUser(call') \/ call'.verified) =>
                (call'.status = "unauthorized" /\ call'.handler = "")]_vars

C1_Witness ==
    /\ call.op = "processData"
    /\ authenticationEnabled(m_clientTransports[call.client])
    /\ users # {}
    /\ call.handler = "Rules.GetRules"
    /\ call.verified
    /\ call.status = "success"

\* C2: on an interface that requires authentication, with no user in the store
\* when the request arrives, a handler is invoked only for JSONRPC.Introspect,
\* Hello, CreateUser, RequestPushButtonAuth or for a request with a valid token;
\* every other request is answered "unauthorized" with the error that begins
\* "Initial setup required", and invokes no handler.
C2_GateNoUser ==
    [][(GatedRequest /\ users = {}) =>
          /\ call'.handler # "" => (ExemptNoUser(call') \/ call'.verified)
          /\ ~(ExemptNoUser(call') \/ call'.verified) =>
                /\ call'.status = "unauthorized"
                /\ call'.error = "Initial setup required. Call CreateUser first."
                /\ call'.handler = ""]_vars

C2_Witness ==
    /\ call.op = "processData"
    /\ authenticationEnabled(m_clientTransports[call.client])
    /\ users = {}
    /\ call.namespace = "JSONRPC" /\ call.method = "Authenticate"
    /\ call.status = "unauthorized"
    /\ call.error = "Initial setup required. Call CreateUser first."
    /\ tokensTable # {}

\* the user a token was issued to is still in the users table
UserExists(username) == \E r \in usersTable : toLower(r.username) = toLower(username)

\* C3: for every token T that authenticate issued to a user U, verifyToken(T)
\* (its query answered by the database) is true exactly when U still exists and
\* T was removed neither by removeToken nor by removeUser(U).
C3_TokenValidity ==
    \A t \in DOMAIN issuedTo :
        verifyToken(t, TRUE) <=> (UserExists(issuedTo[t]) /\ t \notin revoked)

C3_Witness ==
    /\ call.op = "removeUser"
    /\ usersTable # {}
    /\ tokensTable # {}
    /\ \E t \in DOMAIN issuedTo :
          /\ t \in revoked
          /\ ~verifyToken(t, TRUE)
          /\ ~UserExists(issuedTo[t])

\* transactions that were requested and that no pushButtonAuthFinished has
\* finished yet
Pending == (1 .. m_pushButtonTransactionIdCounter) \ finishedTx

\* C4: at most one push-button transaction is pending, whatever sequence of
\* requests, cancels, button presses, GenerateAuthToken calls and disconnects ran.
C4_OnePending == Cardinality(Pending) <= 1

C4_Witness ==
    /\ call.handler = "JSONRPC.RequestPushButtonAuth"
    /\ Len(signals) = 1
    /\ Cardinality(Pending) = 1
    /\ finishedTx # {}

Failure(transactionId) ==
    [transactionId |-> transactionId, success |-> FALSE, token |-> EmptyToken]

\* C5: when RequestPushButtonAuth runs while tx1, requested by client C1, is
\* pending, tx1 is finished with failure and no token, C1 is sent
\* PushButtonAuthFinished for tx1 with success false, and the returned tx2 differs
\* from tx1 and is the only pending transaction, registered for the caller.
C5_Preemption ==
    [][(/\ call'.handler = "JSONRPC.RequestPushButtonAuth"
        /\ m_pushButtonTransaction.first # NoTransaction
        /\ m_pushButtonTransaction.first \in DOMAIN m_pushButtonTransactions) =>
          LET tx1 == m_pushButtonTransaction.first
              c1  == m_pushButtonTransactions[tx1]
              tx2 == call'.result.transactionId
          IN  /\ signals' = <<Failure(tx1)>>
              /\ Len(notes') = 1
              /\ notes'[1].notification = "JSONRPC.PushButtonAuthFinished"
              /\ notes'[1].recipients = {c1}
              /\ notes'[1].params = [transactionId |-> tx1, success |-> FALSE]
              /\ tx2 # tx1
              /\ m_pushButtonTransaction'.first = tx2
              /\ Pending' = {tx2}
              /\ m_pushButtonTransactions' = With(EmptyMap, tx2, call'.client)]_vars

C5_Witness ==
    /\ call.handler = "JSONRPC.RequestPushButtonAuth"
    /\ signals = <<Failure(1)>>
    /\ Len(notes) = 1
    /\ notes[1].recipients # {call.client}
    /\ m_pushButtonTransaction.first = 2

\* C6 as claimed: a press while a transaction is pending persists a new token,
\* finishes the transaction with success carrying it, verifyToken accepts it
\* afterwards and nothing is pending afterwards.
C6_Original ==
    [][(call'.op = "pushButtonPressed" /\ m_pushButtonTransaction.first # NoTransaction) =>
          \E row \in tokensTable' \ tokensTable :
              /\ signals' = <<[transactionId |-> m_pushButtonTransaction.first,
                               success |-> TRUE, token |-> row.token]>>
              /\ verifyToken(row.token, TRUE)'
              /\ m_pushButtonTransaction'.first = NoTransaction]_vars

\* C6 as amended: a press while a transaction is pending leaves nothing pending;
\* when the token row is stored, it is a new row, the transaction finishes with
\* one signal, success carrying that token, and verifyToken accepts it
\* afterwards; when the row cannot be stored, no token is persisted.  A press
\* while nothing is pending creates nothing and emits nothing.
C6_PressFinishes ==
    [][call'.op = "pushButtonPressed" =>
          IF m_pushButtonTransaction.first # NoTransaction
          THEN /\ m_pushButtonTransaction'.first = NoTransaction
               /\ IF call'.result.execOk
                  THEN \E row \in tokensTable' \ tokensTable :
                          /\ tokensTable' = tokensTable \cup {row}
                          /\ signals' = <<[transactionId |-> m_pushButtonTransaction.first,
                                           success |-> TRUE, token |-> row.token]>>
                          /\ verifyToken(row.token, TRUE)'
                  ELSE tokensTable' = tokensTable
          ELSE /\ tokensTable' = tokensTable
               /\ signals' = <<>>
               /\ m_pushButtonTransaction' = m_pushButtonTransaction]_vars

C6_Witness ==
    /\ call.op = "pushButtonPressed"
    /\ call.result.execOk
    /\ Len(signals) = 1 /\ signals[1].success
    /\ verifyToken(signals[1].token, TRUE)
    /\ Len(notes) = 1
    /\ m_pushButtonTransaction.first = NoTransaction

\* C7: when the client that requested the pending transaction disconnects, the
\* transaction is cancelled: nothing is pending afterwards, the RPC server keeps
\* no transaction entry, and a button press while nothing is pending creates no
\* token.
C7_DisconnectCancels ==
    [][/\ (/\ call'.op = "clientDisconnected"
           /\ m_pushButtonTransaction.first \in DOMAIN m_pushButtonTransactions
           /\ m_pushButtonTransactions[m_pushButtonTransaction.first] = call'.client) =>
             /\ signals' = <<Failure(m_pushButtonTransaction.first)>>
             /\ m_pushButtonTransaction'.first = NoTransaction
             /\ Pending' = {}
             /\ m_pushButtonTransactions' = EmptyMap
       /\ (call'.op = "pushButtonPressed" /\ m_pushButtonTransaction.first = NoTransaction) =>
             tokensTable' = tokensTable]_vars

C7_Witness ==
    /\ call.op = "clientDisconnected"
    /\ signals # <<>>
    /\ notes = <<>>
    /\ m_pushButtonTransaction.first = NoTransaction
    /\ m_pushButtonTransactions = EmptyMap
    /\ m_clientTransports # EmptyMap

\* C8: cancelPushButtonAuth(tx) with tx the pending transaction finishes it with
\* failure and no token and leaves nothing pending; with nothing pending, or
\* with another id, it emits nothing and leaves the pending transaction as it was.
C8_Cancel ==
    [][call'.op = "cancelPushButtonAuth" =>
          IF /\ m_pushButtonTransaction.first # NoTransaction
             /\ call'.result.transactionId = m_pushButtonTransaction.first
          THEN /\ signals' = <<Failure(m_pushButtonTransaction.first)>>
               /\ m_pushButtonTransaction'.first = NoTransaction
               /\ Pending' = {}
          ELSE /\ signals' = <<>>
               /\ notes' = <<>>
               /\ m_pushButtonTransaction' = m_pushButtonTransaction
               /\ Pending' = Pending]_vars

C8_Witness ==
    /\ call.op = "cancelPushButtonAuth"
    /\ m_pushButtonTransaction.first # NoTransaction
    /\ call.result.transactionId # m_pushButtonTransaction.first
    /\ signals = <<>>

IsPushButtonAuthFinished(note) == note.notification = "JSONRPC.PushButtonAuthFinished"

\* C9: a PushButtonAuthFinished for tx goes to the client that requested tx and
\* to nobody else (RequestPushButtonAuth registers tx for its caller), and every
\* finished transaction whose requester is connected is notified to it, whether
\* its notification flag is true or false.
C9_OnlyRequester ==
    [][/\ \A i \in DOMAIN notes' :
            IsPushButtonAuthFinished(notes'[i]) =>
               /\ notes'[i].params.transactionId \in DOMAIN m_pushButtonTransactions
               /\ notes'[i].recipients =
                     {m_pushButtonTransactions[notes'[i].params.transactionId]}
       /\ \A i \in DOMAIN signals' :
            (/\ signals'[i].transactionId \in DOMAIN m_pushButtonTransactions
             /\ m_pushButtonTransactions[signals'[i].transactionId]
                   \in DOMAIN m_clientTransports') =>
               \E j \in DOMAIN notes' :
                  /\ IsPushButtonAuthFinished(notes'[j])
                  /\ notes'[j].params.transactionId = signals'[i].transactionId
                  /\ notes'[j].recipients =
                        {m_pushButtonTransactions[signals'[i].transactionId]}
       /\ call'.handler = "JSONRPC.RequestPushButtonAuth" =>
            m_pushButtonTransactions'[call'.result.transactionId] = call'.client]_vars

C9_Witness ==
    /\ notes # <<>>
    /\ IsPushButtonAuthFinished(notes[1])
    /\ notes[1].recipients \cap notes[1].enabledThen = {}
    /\ notes[1].enabledThen # {}

\* C10 as claimed: every notification is sent to a connected client C exactly
\* when C's flag is true at that moment or the notification is a
\* PushButtonAuthFinished addressed to C.
C10_Original ==
    [][\A i \in DOMAIN notes' : \A c \in notes'[i].connectedThen :
          c \in notes'[i].recipients <=>
             \/ c \in notes'[i].enabledThen
             \/ /\ IsPushButtonAuthFinished(notes'[i])
                /\ notes'[i].params.transactionId \in DOMAIN m_pushButtonTransactions
                /\ m_pushButtonTransactions[notes'[i].params.transactionId] = c]_vars

\* C10 as amended: a notification broadcast by sendNotification is sent to a
\* connected client C exactly when C's flag is true at that moment; a
\* PushButtonAuthFinished is sent to C exactly when it is addressed to C.
C10_Delivery ==
    [][\A i \in DOMAIN notes' : \A c \in notes'[i].connectedThen :
          c \in notes'[i].recipients <=>
             IF IsPushButtonAuthFinished(notes'[i])
             THEN /\ notes'[i].params.transactionId \in DOMAIN m_pushButtonTransactions
                  /\ m_pushButtonTransactions[notes'[i].params.transactionId] = c
             ELSE c \in notes'[i].enabledThen]_vars

C10_Witness ==
    /\ call.op = "onCloudConnectedChanged"
    /\ notes[1].recipients # {}
    /\ notes[1].recipients # notes[1].connectedThen
    /\ \E c \in notes[1].recipients : authenticationEnabled(m_clientTransports[c])

\* ---------------------------------------------------------- rule engine
\* the step is a call of the rule engine operation op
RuleStep(op) == ruleCall'.op = op

\* C11: EditRule is atomic.  When editRule returns an error, the persistent
\* rule store, the rule held in memory with all its fields, its position in
\* the insertion order and its membership in the active set are what they
\* were before the call.
C11_EditAtomic ==
    [][ (RuleStep("editRule") /\ ruleCall'.error # "RuleErrorNoError")
        => /\ settings' = settings
           /\ m_rules' = m_rules
           /\ m_ruleIds' = m_ruleIds
           /\ m_activeRules' = m_activeRules ]_vars

\* C12: whenever AddRule returns an error (null or duplicate id, inconsistent
\* rule, unknown device, event type or action type, invalid state evaluator
\* or time descriptor, invalid action param), the rule index, the active set
\* and the persistent store are unchanged and no ruleAdded is emitted.
C12_AddRefused ==
    [][ (RuleStep("addRule") /\ ruleCall'.error # "RuleErrorNoError")
        => /\ m_rules' = m_rules
           /\ m_ruleIds' = m_ruleIds
           /\ m_activeRules' = m_activeRules
           /\ settings' = settings
           /\ ~ruleCall'.saved
           /\ ruleCall'.emitted = <<>> ]_vars

\* an add was refused for its action type while the engine held an active,
\* stored rule
C12_Witness ==
    /\ ruleCall.op = "addRule"
    /\ ruleCall.error = "RuleErrorActionTypeNotFound"
    /\ "r2" \in m_activeRules
    /\ "r2" \in DOMAIN settings
    /\ m_ruleIds = <<"r2">>

\* the rule has exit actions together with an event descriptor or a time
\* event item, or it has no actions
Inconsistent(rule) ==
    \/ rule.exitActions # <<>> /\ rule.eventDescriptors # <<>>
    \/ rule.exitActions # <<>> /\ rule.timeDescriptor.timeEventItems # <<>>
    \/ rule.actions = <<>>

\* C13 as stated: AddRule of a rule that has exit actions together with at
\* least one event descriptor or time event item, or that has no actions,
\* returns InvalidRuleFormat and performs no persistence write.
C13_Original ==
    [][ (RuleStep("addRule") /\ Inconsistent(ruleCall'.rule))
        => /\ ruleCall'.error = "RuleErrorInvalidRuleFormat"
           /\ ~ruleCall'.saved
           /\ settings' = settings ]_vars

\* C13: AddRule of such a rule performs no persistence write; it returns
\* InvalidRuleFormat when the rule's id is not null and not in use, and
\* InvalidRuleId when the id is null or in use.
C13_Inconsistent ==
    [][ (RuleStep("addRule") /\ Inconsistent(ruleCall'.rule))
        => /\ ruleCall'.error =
                IF ruleCall'.rule.id = NullId \/ ruleCall'.rule.id \in DOMAIN m_rules
                THEN "RuleErrorInvalidRuleId" ELSE "RuleErrorInvalidRuleFormat"
           /\ ~ruleCall'.saved
           /\ settings' = settings ]_vars

\* a rule with a time event item and exit actions was refused for its format
\* while the store held a rule
C13_Witness ==
    /\ ruleCall.op = "addRule"
    /\ ruleCall.error = "RuleErrorInvalidRuleFormat"
    /\ ruleCall.rule.exitActions # <<>>
    /\ ruleCall.rule.timeDescriptor.timeEventItems # <<>>
    /\ ruleCall.rule.actions # <<>>
    /\ settings # EmptyMap

\* the rule has no event descriptors and no time event items
StateTimeOnly(rule) ==
    rule.eventDescriptors = <<>> /\ rule.timeDescriptor.timeEventItems = <<>>

\* C14: for every rule without event descriptors and without time event
\* items, after any sequence of AddRule, EnableRule, DisableRule,
\* EvaluateEvent and EvaluateTime, the rule's active flag equals
\* enabled AND statesActive AND timeActive.
C14_ActiveFlag ==
    \A id \in DOMAIN m_rules :
       StateTimeOnly(m_rules[id])
       => m_rules[id].active =
            (m_rules[id].enabled /\ m_rules[id].statesActive /\ timeActive(m_rules[id]))

\* the places of the rule id in the list the last call returned
ReturnedAt(id) == {i \in DOMAIN ruleCall'.rules : ruleCall'.rules[i].id = id}

\* C15: for an enabled rule without event descriptors, EvaluateEvent returns
\* the rule exactly when its activity changes: marked active when timeActive
\* AND statesActive holds and the engine did not hold it as active, marked
\* inactive when that no longer holds and the engine held it as active, and
\* not at all when nothing changed.  The engine holds a rule as active by its
\* membership in the active set, and the rule's flag follows the change.
C15_ActivityChange ==
    [][ RuleStep("evaluateEvent")
        => \A id \in DOMAIN m_rules :
             (m_rules[id].enabled /\ m_rules[id].eventDescriptors = <<>>)
             => LET holds == timeActive(m_rules'[id]) /\ m_rules'[id].statesActive
                    was == id \in m_activeRules
                IN  /\ (holds /\ ~was)
                       => /\ Cardinality(ReturnedAt(id)) = 1
                          /\ \A i \in ReturnedAt(id) : ruleCall'.rules[i].active
                          /\ m_rules'[id].active
                          /\ id \in m_activeRules'
                    /\ (~holds /\ was)
                       => /\ Cardinality(ReturnedAt(id)) = 1
                          /\ \A i \in ReturnedAt(id) : ~ruleCall'.rules[i].active
                          /\ ~m_rules'[id].active
                          /\ id \notin m_activeRules'
                    /\ (holds = was)
                       => /\ ReturnedAt(id) = {}
                          /\ m_rules'[id].active = m_rules[id].active
                          /\ (id \in m_activeRules') = was ]_vars

\* an event made an enabled state rule inactive and EvaluateEvent returned it
C15_Witness ==
    /\ ruleCall.op = "evaluateEvent"
    /\ \E i \in DOMAIN ruleCall.rules :
         /\ ruleCall.rules[i].id = "r1"
         /\ ruleCall.rules[i].eventDescriptors = <<>>
         /\ ruleCall.rules[i].enabled
         /\ ~ruleCall.rules[i].active
         /\ ~ruleCall.rules[i].statesActive
    /\ "r1" \notin m_activeRules

\* the event matches one of the rule's event descriptors: same event type,
\* same device, and the descriptor's param value if it names one
Matches(rule, event) ==
    \E i \in DOMAIN rule.eventDescriptors :
       /\ rule.eventDescriptors[i].eventTypeId = event.eventTypeId
       /\ rule.eventDescriptors[i].deviceId = event.deviceId
       /\ rule.eventDescriptors[i].paramValue \in {NoValue, event.paramValue}

\* C16: an enabled rule with event descriptors is returned by EvaluateEvent
\* for every event that matches one of its descriptors while statesActive and
\* timeActive hold, and for no other event; such a rule is never put in the
\* active set and its active flag never becomes true.
C16_EventRules ==
    [][ /\ \A event \in Events :
             (RuleStep("evaluateEvent") /\ ruleCall'.event = event)
             => \A id \in DOMAIN m_rules :
                  (m_rules[id].enabled /\ m_rules[id].eventDescriptors # <<>>)
                  => (ReturnedAt(id) # {})
                       = (/\ Matches(m_rules[id], event)
                          /\ m_rules'[id].statesActive
                          /\ timeActive(m_rules'[id]))
        /\ \A id \in DOMAIN m_rules' :
             m_rules'[id].eventDescriptors # <<>>
             => id \notin m_activeRules' /\ ~m_rules'[id].active ]_vars

\* the place of the rule id in the insertion order of the rule index
PlaceOf(id) == CHOOSE i \in DOMAIN m_ruleIds : m_ruleIds[i] = id

\* C17: the rules returned by EvaluateEvent and by EvaluateTime are listed
\* in the insertion order of the rule index.
C17_InsertionOrder ==
    [][ (RuleStep("evaluateEvent") \/ RuleStep("evaluateTime"))
        => \A i, j \in DOMAIN ruleCall'.rules :
             i < j => PlaceOf(ruleCall'.rules[i].id) <= PlaceOf(ruleCall'.rules[j].id) ]_vars

\* C18: after every rule operation returns (AddRule, EditRule whether it
\* succeeds or fails, RemoveRule, EnableRule, DisableRule,
\* removeDeviceFromRule), the persistent store holds exactly the rules held
\* in memory, each with the same enabled flag and the same content.
C18_StoreMatchesMemory ==
    /\ DOMAIN settings = DOMAIN m_rules
    /\ \A id \in DOMAIN m_rules :
         /\ settings[id].enabled = m_rules[id].enabled
         /\ settings[id] = savedGroup(m_rules[id])

\* C19: saving a rule, loading it back and saving again writes the same keys
\* and values as the first save, for every valid rule (including calendar
\* items that only have a startTime and rules with exit actions).
C19_RoundTrip ==
    [][ RuleStep("RuleEngine")
        => \A id \in DOMAIN settings :
             /\ id \in DOMAIN m_rules'
             /\ savedGroup(m_rules'[id]) = settings[id] ]_vars

\* the fields of a rule the caller of AddRule supplies
UserFields(rule) ==
    [id |-> rule.id, name |-> rule.name, enabled |-> rule.enabled,
     executable |-> rule.executable, timeDescriptor |-> rule.timeDescriptor,
     stateEvaluator |-> rule.stateEvaluator, eventDescriptors |-> rule.eventDescriptors,
     actions |-> rule.actions, exitActions |-> rule.exitActions]

\* some calendar item of the rule contains the moment
CalendarContains(rule, moment) ==
    \E i \in DOMAIN rule.timeDescriptor.calendarItems :
       LET c == rule.timeDescriptor.calendarItems[i]
           start == IF c.startTime.valid THEN c.startTime.hh ELSE c.dateTime
       IN  start <= moment /\ moment < start + c.duration

\* C20: after a successful AddRule(r), findRule(r.id) returns a rule with the
\* same user-supplied fields, active false, statesActive equal to the state
\* evaluator's value at add time, and timeActive true if it has no calendar
\* items and otherwise the evaluated calendar state.
C20_AddedRule ==
    [][ (RuleStep("addRule") /\ ruleCall'.error = "RuleErrorNoError")
        => LET r == ruleCall'.rule
               found == IF r.id \in DOMAIN m_rules' THEN m_rules'[r.id] ELSE NoRule
           IN  /\ UserFields(found) = UserFields(r)
               /\ ~found.active
               /\ found.statesActive = StateEvaluator_evaluate(r.stateEvaluator, deviceState)
               /\ timeActive(found) =
                    IF r.timeDescriptor.calendarItems = <<>> THEN TRUE
                    ELSE CalendarContains(r, clock) ]_vars

\* ---------------------------------------------------------------------- C21
\* C21: after any sequence of addRule, editRule, removeRule and
\* removeDeviceFromRule (with rules enabled, disabled and evaluated in
\* between) every id occurs once in m_ruleIds, m_ruleIds holds exactly the
\* keys of m_rules, each rule is stored under its own id, no id is null and
\* m_activeRules holds only ids of rules of m_rules.
C21_IdIndex ==
    /\ \A i, j \in DOMAIN m_ruleIds : m_ruleIds[i] = m_ruleIds[j] => i = j
    /\ Range(m_ruleIds) = DOMAIN m_rules
    /\ \A id \in DOMAIN m_rules : m_rules[id].id = id
    /\ NullId \notin DOMAIN m_rules
    /\ m_activeRules \subseteq DOMAIN m_rules

\* an active rule was removed while another rule stays active
C21_Witness ==
    /\ ruleCall.op = "removeRule"
    /\ ruleCall.error = "RuleErrorNoError"
    /\ ruleCall.id = "r1"
    /\ m_ruleIds = <<"r2">>
    /\ m_activeRules = {"r2"}

\* ---------------------------------------------------------------------- C22
\* C22: an editRule that returns RuleErrorNoError emits
\* ruleConfigurationChanged and neither ruleRemoved nor ruleAdded, and
\* ruleAdded is emitted only by a call of addRule that is not part of an edit.
C22_EditSignals ==
    [][ /\ (RuleStep("editRule") /\ ruleCall'.error = "RuleErrorNoError")
           => /\ "ruleConfigurationChanged" \in Range(ruleCall'.emitted)
              /\ "ruleRemoved" \notin Range(ruleCall'.emitted)
              /\ "ruleAdded" \notin Range(ruleCall'.emitted)
        /\ "ruleAdded" \in Range(ruleCall'.emitted) => RuleStep("addRule") ]_vars

\* ---------------------------------------------------------------------- C23
\* the value enableRule or disableRule gives the enabled flag
FlagOf(op) == op = "enableRule"

\* C23: enableRule and disableRule are idempotent. A call for a rule whose
\* flag already has the value, in particular the second of two calls in a
\* row, returns RuleErrorNoError, emits nothing, saves nothing and leaves
\* rules, order, active set and settings as they were; a call that changes
\* the flag sets it in the rule and in the rule's settings group, changes no
\* other rule and emits ruleConfigurationChanged once; a call for an unknown
\* id returns RuleErrorRuleNotFound and changes nothing.
C23_Idempotent ==
    [][ \A op \in {"enableRule", "disableRule"} :
          RuleStep(op) =>
             LET id == ruleCall'.id
             IN  /\ id \notin DOMAIN m_rules
                    => /\ ruleCall'.error = "RuleErrorRuleNotFound"
                       /\ ruleCall'.emitted = <<>>
                       /\ ~ruleCall'.saved
                       /\ UNCHANGED <<m_rules, m_ruleIds, m_activeRules, settings>>
                 /\ (id \in DOMAIN m_rules /\ m_rules[id].enabled = FlagOf(op))
                    => /\ ruleCall'.error = "RuleErrorNoError"
                       /\ ruleCall'.emitted = <<>>
                       /\ ~ruleCall'.saved
                       /\ UNCHANGED <<m_rules, m_ruleIds, m_activeRules, settings>>
                 /\ (id \in DOMAIN m_rules /\ m_rules[id].enabled # FlagOf(op))
                    => /\ ruleCall'.error = "RuleErrorNoError"
                       /\ ruleCall'.emitted = <<"ruleConfigurationChanged">>
                       /\ m_rules' = [m_rules EXCEPT ![id].enabled = FlagOf(op)]
                       /\ id \in DOMAIN settings'
                       /\ settings'[id].enabled = FlagOf(op)
                       /\ \A other \in DOMAIN settings \ {id} :
                            other \in DOMAIN settings' /\ settings'[other] = settings[other]
                       /\ UNCHANGED <<m_ruleIds, m_activeRules>>
                 /\ (ruleCall.op = op /\ ruleCall.id = id /\ id \in DOMAIN m_rules)
                    => /\ m_rules[id].enabled = FlagOf(op)
                       /\ ruleCall'.error = "RuleErrorNoError"
                       /\ ruleCall'.emitted = <<>>
                       /\ UNCHANGED <<m_rules, m_ruleIds, m_activeRules, settings>> ]_vars

\* disableRule was called for a rule that is already disabled
C23_Witness ==
    /\ ruleCall.op = "disableRule"
    /\ ruleCall.id \in DOMAIN m_rules
    /\ ~m_rules[ruleCall.id].enabled
    /\ ~settings[ruleCall.id].enabled
    /\ ruleCall.error = "RuleErrorNoError"
    /\ ruleCall.emitted = <<>>

\* ---------------------------------------------------------------------- C24
\* C24: executeActions hands the rule's actions to the executor only if the
\* rule exists, is executable and none of its actions is event based, and
\* executeExitActions hands over the exit actions only if the rule exists, is
\* executable and has an exit action; otherwise the call returns
\* RuleErrorRuleNotFound, RuleErrorNotExecutable,
\* RuleErrorContainsEventBasesAction or RuleErrorNoExitActions for the
\* condition that fails and nothing is handed over. Neither call changes the
\* rules.
C24_Execute ==
    [][ /\ RuleStep("executeActions") =>
             LET id == ruleCall'.id
                 known == id \in DOMAIN m_rules
                 eventBased == \E i \in DOMAIN m_rules[id].actions :
                                  m_rules[id].actions[i].eventTypeId # ""
             IN  /\ ruleCall'.dispatched
                      = (known /\ m_rules[id].executable /\ ~eventBased)
                 /\ ruleCall'.dispatched
                    => /\ ruleCall'.executed = m_rules[id].actions
                       /\ ruleCall'.error = "RuleErrorNoError"
                 /\ ~ruleCall'.dispatched
                    => /\ ruleCall'.executed = <<>>
                       /\ ruleCall'.error =
                            IF ~known THEN "RuleErrorRuleNotFound"
                            ELSE IF ~m_rules[id].executable THEN "RuleErrorNotExecutable"
                            ELSE "RuleErrorContainsEventBasesAction"
                 /\ UNCHANGED <<m_rules, m_ruleIds, m_activeRules, settings>>
        /\ RuleStep("executeExitActions") =>
             LET id == ruleCall'.id
                 known == id \in DOMAIN m_rules
             IN  /\ ruleCall'.dispatched
                      = (known /\ m_rules[id].executable /\ m_rules[id].exitActions # <<>>)
                 /\ ruleCall'.dispatched
                    => /\ ruleCall'.executed = m_rules[id].exitActions
                       /\ ruleCall'.error = "RuleErrorNoError"
                 /\ ~ruleCall'.dispatched
                    => /\ ruleCall'.executed = <<>>
                       /\ ruleCall'.error =
                            IF ~known THEN "RuleErrorRuleNotFound"
                            ELSE IF ~m_rules[id].executable THEN "RuleErrorNotExecutable"
                            ELSE "RuleErrorNoExitActions" ]_vars

\* the actions of an executable rule with an event based action were
\* requested and refused
C24_Witness ==
    /\ ruleCall.op = "executeActions"
    /\ ruleCall.id \in DOMAIN m_rules
    /\ m_rules[ruleCall.id].executable
    /\ \E i \in DOMAIN m_rules[ruleCall.id].actions :
          m_rules[ruleCall.id].actions[i].eventTypeId # ""
    /\ ruleCall.error = "RuleErrorContainsEventBasesAction"
    /\ ~ruleCall.dispatched

\* ---------------------------------------------------------------------- C25
\* the step is the async step op
AsyncStep(op) == asyncCall'.op = op

\* the replies for the user id that wait for their result
WaitingFor(userId) == {r \in DOMAIN m_asyncReplies : replies[r].userId = userId}

\* C25: for every async reply exactly one response is sent, when it finishes
\* and none before; a pairing result that arrives while a reply for its user
\* waits is sent as the response of such a reply, also when two requests for
\* the same user overlap; the expiry of a reply's timer sends the error
\* "Command timed out" for it; and a result that arrives when no reply for
\* its user waits any more sends nothing.
C25_AsyncReplies ==
    [][ /\ \A r \in DOMAIN replies' :
             Len(sent'[r]) = IF r \in DOMAIN m_asyncReplies' THEN 0 ELSE 1
        /\ AsyncStep("pairingFinished") =>
             IF WaitingFor(asyncCall'.userId) = {}
             THEN sent' = sent
             ELSE \E r \in WaitingFor(asyncCall'.userId) :
                     /\ r \notin DOMAIN m_asyncReplies'
                     /\ sent'[r] = <<sendResponse(replies[r], asyncCall'.transaction)>>
        /\ AsyncStep("timeout") =>
             sent'[asyncCall'.reply] =
                <<sendErrorResponse(replies[asyncCall'.reply], "Command timed out")>> ]_vars

\* ---------------------------------------------------------------------- C26
\* the notifications of ns that were sent to the client
SentTo(clientId, ns) == SelectSeq(ns, LAMBDA n : clientId \in n.recipients)

\* C26: the ids of the notifications a client receives increase: each
\* notification the server sends to a client, PushButtonAuthFinished
\* included, has an id greater than the ids of the notifications sent to the
\* client before it. Stated for the notifications of one step and of the
\* step before it.
C26_MonotonicIds ==
    [][ \A c \in Clients :
          /\ \A i, j \in DOMAIN SentTo(c, notes') :
                i < j => SentTo(c, notes')[i].id < SentTo(c, notes')[j].id
          /\ \A i \in DOMAIN SentTo(c, notes), j \in DOMAIN SentTo(c, notes') :
                SentTo(c, notes)[i].id < SentTo(c, notes')[j].id ]_vars

\* ---------------------------------------------------------------------- C27
\* a user with the name, compared in lower case, is stored with the password
Credentials(username, password) ==
    \E r \in usersTable : toLower(r.username) = toLower(username) /\ r.password = password

\* the token passes the authentication gate for every method on every interface
PassesGate(token) ==
    \A interface \in Interfaces : \A namespace \in Namespaces :
       \A method \in Methods(namespace) :
          gate(interface, namespace, method, token, TRUE) = ""

\* what an Authenticate call does beside its answer to the credentials
AuthenticateReply ==
    /\ call'.status = "success"
    /\ call'.result.success
       => /\ DOMAIN call'.result = {"success", "token"}
          /\ call'.result.token # EmptyToken
          /\ tokensTable' \ tokensTable =
                {[id |-> call'.result.token, username |-> call'.args.username,
                  token |-> call'.result.token, devicename |-> call'.args.deviceName]}
          /\ \E token \in 1 .. MaxTokens :
                token = call'.result.token /\ PassesGate(token)'
    /\ ~call'.result.success
       => /\ DOMAIN call'.result = {"success"}
          /\ tokensTable' = tokensTable

\* C27 as stated: Authenticate returns success with a token if and only if
\* the user name, compared case-insensitively, exists and the password
\* matches; the token then passes the gate for any method; a failed
\* Authenticate returns success false without a token and stores no token.
C27_Original ==
    [][ call'.handler = "JSONRPC.Authenticate" =>
          /\ call'.result.success = Credentials(call'.args.username, call'.args.password)
          /\ AuthenticateReply ]_vars

\* C27: Authenticate returns success with a token if and only if the user
\* name, compared case-insensitively, exists, the password matches and the
\* token row is stored; the token is then in the tokens table and passes the
\* gate for any method; a failed Authenticate returns success false without
\* a token and stores no token.
C27_Authenticate ==
    [][ call'.handler = "JSONRPC.Authenticate" =>
          /\ call'.result.success
               = (Credentials(call'.args.username, call'.args.password) /\ call'.execOk)
          /\ AuthenticateReply ]_vars

\* a user stored as Alice@guh.io authenticated as alice@guh.io and holds a
\* valid token
C27_Witness ==
    /\ call.handler = "JSONRPC.Authenticate"
    /\ call.result.success
    /\ call.args.username \notin users
    /\ verifyToken(call.result.token, TRUE)
    /\ PassesGate(call.result.token)

\* ---------------------------------------------------------------------- C28
\* C28: CreateUser is allowed once, during the initial setup: once a user
\* exists, a JSONRPC.CreateUser request on a transport that requires
\* authentication reaches no handler and creates no user.
C28_CreateUserOnce ==
    [][ (/\ call'.op = "processData"
         /\ call'.form = "ok"
         /\ call'.namespace = "JSONRPC"
         /\ call'.method = "CreateUser"
         /\ authenticationEnabled(m_clientTransports[call'.client])
         /\ users # {})
        => /\ call'.handler = ""
           /\ call'.status # "success"
           /\ usersTable' = usersTable ]_vars

\* ---------------------------------------------------------------------- C29
\* the authentication of transaction tx succeeded: a signal of sigs finishes it
\* with success and the token of the signal is stored in tokens
AuthSucceeded(tx, sigs, tokens) ==
    \E k \in DOMAIN sigs :
        /\ sigs[k].transactionId = tx
        /\ sigs[k].success
        /\ \E t \in tokens : t.token = sigs[k].token

\* C29: every PushButtonAuthFinished notification carries exactly the declared
\* fields transactionId and status, and the field token if and only if the
\* authentication of its transaction succeeded.
C29_DeclaredFields ==
    [][ \A i \in DOMAIN notes' :
          IsPushButtonAuthFinished(notes'[i]) =>
             DOMAIN notes'[i].params =
                {"transactionId", "status"}
                   \cup (IF AuthSucceeded(notes'[i].id, signals', tokensTable')
                         THEN {"token"} ELSE {}) ]_vars

\* ---------------------------------------------------------------------- C30
\* C30: a client that connects on a transport requiring authentication has its
\* notification flag false, and on another transport true; the flag of a client
\* on a transport requiring authentication becomes true only by a
\* SetNotificationStatus request of that client that enables it and carries a
\* valid token; and a broadcast notification is sent only to clients whose flag
\* is true. Hence a client on such a transport that never presented a valid
\* token never receives a broadcast notification.
C30_NotificationFlag ==
    [][ /\ call'.op = "clientConnected" =>
              m_clientNotifications'[call'.client]
                 = ~authenticationEnabled(m_clientTransports'[call'.client])
        /\ \A c \in DOMAIN m_clientTransports' :
              (/\ authenticationEnabled(m_clientTransports'[c])
               /\ m_clientNotifications'[c]
               /\ ~(c \in DOMAIN m_clientNotifications /\ m_clientNotifications[c]))
              => /\ call'.op = "processData"
                 /\ call'.client = c
                 /\ call'.namespace = "JSONRPC"
                 /\ call'.method = "SetNotificationStatus"
                 /\ call'.handler = "JSONRPC.SetNotificationStatus"
                 /\ call'.result.enabled
                 /\ call'.verified
        /\ \A i \in DOMAIN notes' :
              ~IsPushButtonAuthFinished(notes'[i]) =>
                 notes'[i].recipients \subseteq keysTrue(m_clientNotifications) ]_vars

C30_Witness ==
    /\ call.op = "processData"
    /\ call.method = "SetNotificationStatus"
    /\ call.verified
    /\ call.client \in DOMAIN m_clientTransports
    /\ authenticationEnabled(m_clientTransports[call.client])
    /\ m_clientNotifications[call.client]
    /\ \E c \in DOMAIN m_clientTransports :
          authenticationEnabled(m_clientTransports[c]) /\ ~m_clientNotifications[c]

\* ---------------------------------------------------------------------- C31
\* the ids of two descriptors match: eventTypeId and deviceId, or interface and
\* event name
SameIds(a, b) ==
    /\ a.eventTypeId = b.eventTypeId /\ a.deviceId = b.deviceId
    /\ a.interface = b.interface /\ a.interfaceEvent = b.interfaceEvent

\* the param descriptors of two descriptors match: each has the params of the
\* other, with the same values
SameParams(a, b) ==
    {a.paramDescriptors[i] : i \in DOMAIN a.paramDescriptors}
        = {b.paramDescriptors[i] : i \in DOMAIN b.paramDescriptors}

\* C31: a == b holds exactly when the ids (eventTypeId and deviceId, or
\* interface and event name) match and the param descriptors match, and it is
\* symmetric: a == b if and only if b == a.
C31_Equality ==
    equality.op = "operator==" =>
        /\ equality.result <=> (/\ SameIds(thisDescriptor, otherDescriptor)
                                /\ SameParams(thisDescriptor, otherDescriptor))
        /\ equality.result <=> equality.converse

\* ---------------------------------------------------------------------- C32
\* C32: for an enabled rule with calendar items and no time event items,
\* EvaluateTime returns the rule exactly when its activity changes: marked
\* active on the tick where its calendar items contain the time and
\* statesActive holds and the engine did not hold it as active, marked
\* inactive on the tick where that no longer holds and the engine held it as
\* active, and not at all on a tick that leaves its activity unchanged.
C32_CalendarTransition ==
    [][ RuleStep("evaluateTime")
        => \A id \in DOMAIN m_rules :
             (/\ m_rules[id].enabled
              /\ m_rules[id].timeDescriptor.calendarItems # <<>>
              /\ m_rules[id].timeDescriptor.timeEventItems = <<>>)
             => LET holds == CalendarContains(m_rules[id], clock') /\ m_rules[id].statesActive
                    was == id \in m_activeRules
                IN  /\ (holds /\ ~was)
                       => /\ Cardinality(ReturnedAt(id)) = 1
                          /\ \A i \in ReturnedAt(id) : ruleCall'.rules[i].active
                          /\ m_rules'[id].active
                          /\ id \in m_activeRules'
                    /\ (~holds /\ was)
                       => /\ Cardinality(ReturnedAt(id)) = 1
                          /\ \A i \in ReturnedAt(id) : ~ruleCall'.rules[i].active
                          /\ ~m_rules'[id].active
                          /\ id \notin m_activeRules'
                    /\ (holds = was)
                       => /\ ReturnedAt(id) = {}
                          /\ m_rules'[id].active = m_rules[id].active
                          /\ (id \in m_activeRules') = was ]_vars

\* a tick after the window closed returned the calendar rule with a state
\* evaluator as inactive, its state still holding
C32_Witness ==
    /\ ruleCall.op = "evaluateTime"
    /\ \E i \in DOMAIN ruleCall.rules :
         /\ ruleCall.rules[i].id = "r1"
         /\ ruleCall.rules[i].name = "calendarState"
         /\ ruleCall.rules[i].enabled
         /\ ruleCall.rules[i].statesActive
         /\ ~ruleCall.rules[i].active
    /\ "r1" \notin m_activeRules
    /\ "r2" \in m_activeRules

\* ---------------------------------------------------------------------- C33
\* the step before was a successful EditRule
Edited == ruleCall.op = "editRule" /\ ruleCall.error = "RuleErrorNoError"

\* the conditions of the rule hold at the moment: its state evaluator on the
\* state of the device and, if it has calendar items, one of them on the moment
ConditionsHold(rule, state, moment) ==
    /\ StateEvaluator_evaluate(rule.stateEvaluator, state)
    /\ rule.timeDescriptor.calendarItems # <<>> => CalendarContains(rule, moment)

\* C33: a successful EditRule leaves the rule out of the active set and not
\* active, whatever the edit changes; and when the rule was active before the
\* edit, the evaluation that follows the edit, of an event or of the time,
\* returns the rule as newly active if the rule is enabled, is tracked by its
\* activity (no event descriptors, no time event items) and its conditions
\* hold.
C33_EditRecomputes ==
    [][ /\ (RuleStep("editRule") /\ ruleCall'.error = "RuleErrorNoError")
           => /\ ruleCall'.id \notin m_activeRules'
              /\ ~m_rules'[ruleCall'.id].active
        /\ (/\ Edited /\ ruleCall.wasActive
            /\ (RuleStep("evaluateEvent") \/ RuleStep("evaluateTime")))
           => LET id == ruleCall.id
              IN  (/\ m_rules[id].enabled
                   /\ m_rules[id].eventDescriptors = <<>>
                   /\ m_rules[id].timeDescriptor.timeEventItems = <<>>
                   /\ ConditionsHold(m_rules[id], deviceState', clock'))
                  => /\ Cardinality(ReturnedAt(id)) = 1
                     /\ \A i \in ReturnedAt(id) : ruleCall'.rules[i].active
                     /\ m_rules'[id].active
                     /\ id \in m_activeRules' ]_vars

\* ---------------------------------------------------------------------- C34
\* C34: a disabled rule is never returned by EvaluateEvent or EvaluateTime,
\* and neither operation changes the rule (its statesActive, timeActive and
\* active flags included) or its membership in the active set.
C34_DisabledUntouched ==
    [][ (RuleStep("evaluateEvent") \/ RuleStep("evaluateTime"))
        => \A id \in DOMAIN m_rules :
             ~m_rules[id].enabled
             => /\ ReturnedAt(id) = {}
                /\ id \in DOMAIN m_rules'
                /\ m_rules'[id] = m_rules[id]
                /\ (id \in m_activeRules') = (id \in m_activeRules) ]_vars

\* the state of the device changed while the state rule r1 was disabled and
\* active: the rule keeps its flags and its place in the active set
C34_Witness ==
    /\ ruleCall.op = "evaluateEvent"
    /\ ruleCall.event.eventTypeId = "S1"
    /\ "r1" \in DOMAIN m_rules
    /\ ~m_rules["r1"].enabled
    /\ m_rules["r1"].stateEvaluator # NoStateEvaluator
    /\ m_rules["r1"].statesActive
    /\ ~deviceState
    /\ "r1" \in m_activeRules
    /\ ruleCall.rules = <<>>

\* ---------------------------------------------------------------------- C35
\* the reply processData owes the message: the first check that fails decides;
\* a handler whose assertion fails ends the server where assertions are
\* compiled in, and the message stays without reply
ExpectedReply(msg, authorized, reply) ==
    IF msg.form = "parseError"
    THEN reply.status = "error" /\ reply.error = "Failed to parse JSON data" /\ reply.handler = ""
    ELSE IF msg.form = "noId"
    THEN /\ reply.status = "error" /\ reply.handler = ""
         /\ reply.error = "Error parsing command. Missing 'id'"
    ELSE IF msg.form = "badMethod"
    THEN reply.status = "error" /\ reply.error = "Error parsing method." /\ reply.handler = ""
    ELSE IF ~authorized
    THEN reply.status = "unauthorized" /\ reply.handler = ""
    ELSE IF msg.namespace \notin {"JSONRPC", "Rules"}
    THEN reply.status = "error" /\ reply.error = "No such namespace" /\ reply.handler = ""
    ELSE IF msg.method \notin Methods(msg.namespace)
    THEN reply.status = "error" /\ reply.error = "No such method" /\ reply.handler = ""
    ELSE IF ~msg.args.paramsOk
    THEN reply.status = "error" /\ reply.error = "Invalid params" /\ reply.handler = ""
    ELSE /\ reply.status = "success" /\ reply.handler # ""
         /\ reply.handler = "JSONRPC.Tokens" => reply.result.assertion

\* every async reply that finished was answered once, to the client and the
\* command it belongs to, and a waiting one was not answered yet
AnsweredOnce ==
    \A r \in DOMAIN replies :
       IF r \in DOMAIN m_asyncReplies THEN sent[r] = <<>>
       ELSE /\ Len(sent[r]) = 1
            /\ sent[r][1].clientId = replies[r].clientId
            /\ sent[r][1].commandId = replies[r].commandId

\* C35: every message received by processData gets one reply, to the client
\* that sent it, and the checks run in the order parse, id and method format,
\* authentication gate, handler and method lookup, param validation: the
\* first check that fails decides the reply, a handler is invoked only when
\* all pass, and an unauthenticated call to an unknown namespace or method is
\* answered unauthorized.  A message answered asynchronously is answered once,
\* when its reply finishes.
C35_OneReplyInOrder ==
    [][ /\ \A msg \in ProtocolMessages : \A queryOk, execOk \in BOOLEAN :
             (/\ call'.op = "processData"
              /\ call'.form = msg.form
              /\ call'.namespace = msg.namespace
              /\ call'.method = msg.method
              /\ processData("c1", msg, queryOk, execOk))
             => /\ call'.client = "c1"
                /\ ExpectedReply(msg,
                                 \/ ~authenticationEnabled(m_clientTransports["c1"])
                                 \/ IF users = {} THEN ExemptNoUser(msg) ELSE ExemptWithUser(msg)
                                 \/ call'.verified,
                                 call')
        /\ AnsweredOnce' ]_vars

\* ---------------------------------------------------------------------- C36
\* C36: every rule the engine holds satisfies the consistency rules of
\* addRule: it has at least one action, and it has no exit actions if it has
\* event descriptors or time event items.
C36_HeldRulesConsistent ==
    \A id \in DOMAIN m_rules :
       /\ m_rules[id].actions # <<>>
       /\ (\/ m_rules[id].eventDescriptors # <<>>
           \/ m_rules[id].timeDescriptor.timeEventItems # <<>>)
          => m_rules[id].exitActions = <<>>

\* ---------------------------------------------------------------------- C37
\* the state descriptors at the leaves of a state evaluator
RECURSIVE Leaves(_)
Leaves(se) ==
    (IF se.stateDescriptor.valid THEN {se.stateDescriptor} ELSE {})
    \cup UNION {Leaves(se.childEvaluators[i]) : i \in DOMAIN se.childEvaluators}

\* the elements of a list that do not reference the device, in their order
OfOtherDevices(list, deviceId) == SelectSeq(list, LAMBDA x : x.deviceId # deviceId)

\* C37: removeDeviceFromRule(id, deviceId) changes only the parts of the rule
\* that reference the device: the name, the enabled flag, the executable flag
\* and the time descriptor of the rule are the same before and after, the
\* event descriptors, state-evaluator leaves, actions and exit actions of
\* other devices are kept, those of the device are gone, and the rule is in
\* the active set exactly if its active flag is true.
C37_OnlyTheDevice ==
    [][ \A id \in RuleIds : \A deviceId \in ConfiguredDevices :
          (id \in DOMAIN m_rules /\ RemoveDeviceFromRule(id, deviceId))
          => /\ id \in DOMAIN m_rules'
             /\ m_rules'[id].name = m_rules[id].name
             /\ m_rules'[id].enabled = m_rules[id].enabled
             /\ m_rules'[id].executable = m_rules[id].executable
             /\ m_rules'[id].timeDescriptor = m_rules[id].timeDescriptor
             /\ m_rules'[id].eventDescriptors
                  = OfOtherDevices(m_rules[id].eventDescriptors, deviceId)
             /\ m_rules'[id].actions = OfOtherDevices(m_rules[id].actions, deviceId)
             /\ m_rules'[id].exitActions = OfOtherDevices(m_rules[id].exitActions, deviceId)
             /\ Leaves(m_rules'[id].stateEvaluator)
                  = {l \in Leaves(m_rules[id].stateEvaluator) : l.deviceId # deviceId}
             /\ (id \in m_activeRules') = m_rules'[id].active ]_vars

\* ---------------------------------------------------------------------- C38
\* the signals of sigs that finish the transaction
SignalsFor(sigs, transactionId) == {i \in DOMAIN sigs : sigs[i].transactionId = transactionId}

\* C38: a pending push-button transaction is finished by exactly one
\* pushButtonAuthFinished signal, and a signal with success and a token is
\* emitted only if that token was stored: when storing the token fails,
\* pushButtonPressed and GenerateAuthToken report failure only and hand out no
\* token.
C38_OneSignal ==
    [][ /\ \A transactionId \in 1 .. MaxTx + 1 :
             Cardinality(SignalsFor(signals', transactionId)) <= 1
        /\ (call'.op = "pushButtonPressed" /\ m_pushButtonTransaction.first # NoTransaction)
           => Cardinality(SignalsFor(signals', m_pushButtonTransaction.first)) = 1
        /\ \A i \in DOMAIN signals' :
             signals'[i].success => \E t \in tokensTable' : t.token = signals'[i].token
        /\ call'.op = "GenerateAuthToken"
           => (call'.result.token # EmptyToken
               => \E t \in tokensTable' : t.token = call'.result.token) ]_vars

\* ---------------------------------------------------------------------- C39
\* C39: the assertion of JSONRPC.Tokens, that a user exists for the caller's
\* token, holds for every Tokens call that passes the authentication gate,
\* with a token of a push-button authentication and on a transport without
\* authentication as well.
C39_TokensAssertion ==
    [][ (call'.op = "processData" /\ call'.handler = "JSONRPC.Tokens")
        => call'.result.assertion ]_vars

\* ---------------------------------------------------------------------- C40
\* C40: pushButtonPressed while no transaction is pending creates no token
\* and emits no signal and no notification, and over any sequence of
\* operations the number of tokens created by button presses is at most the
\* number of push-button authentications requested, by RequestPushButtonAuth
\* or by GenerateAuthToken.
C40_NoTokenWithoutRequest ==
    [][ /\ (call'.op = "pushButtonPressed" /\ m_pushButtonTransaction.first = NoTransaction)
           => /\ tokensTable' = tokensTable
              /\ uuidCounter' = uuidCounter
              /\ signals' = <<>>
              /\ notes' = <<>>
              /\ m_pushButtonTransaction' = m_pushButtonTransaction
        /\ uuidCounter' <= m_pushButtonTransactionIdCounter'
        /\ Cardinality(tokensTable') <= m_pushButtonTransactionIdCounter' ]_vars

\* the button was pressed with nothing pending, after every requested
\* authentication had got its token
C40_Witness ==
    /\ call.op = "pushButtonPressed"
    /\ signals = <<>>
    /\ m_pushButtonTransaction.first = NoTransaction
    /\ uuidCounter >= 1
    /\ uuidCounter = m_pushButtonTransactionIdCounter
    /\ tokensTable # {}
====
